---- MODULE Spec2Model ----
(***************************************************************************)
(* Model of proxy_converter.py: a registry of local HTTP listeners, each   *)
(* forwarding through a credentialed SOCKS5 upstream, with a persisted     *)
(* registry file, a DNS override chain and a CONNECT tunnel relay.         *)
(*                                                                         *)
(* Strings are sequences of one-character strings, so that the regular     *)
(* expressions, str() and int() of the source are computed, not assumed.   *)
(***************************************************************************)
EXTENDS Integers, Sequences, FiniteSets, TLC

VARIABLES
    pc,         \* main(): "stopped" (no process), "menu" (restored, in the menu loop), "cleaned" (cleanup() has run)
    PROXIES,    \* the dict PROXIES in insertion order: entries [port, proxy, server]
    file,       \* ~/.bindproxy.json: [kind, data]
    lastSaved,  \* history: the (port, proxy) pairs of the last save that wrote the file
    lastOp,     \* history: the last operation, its inputs and its outcome; for an exit, how the
                \* process ended, the save_proxies calls of its shutdown and the listeners left serving
    calls,      \* the bind_proxy calls in progress: [pc, arg, port] each, and under buf the
                \* text json.dump has written into the file object of a save in progress
    dns,        \* the last name resolution: its inputs, the steps it attempted, its outcome
    tun         \* the latest CONNECT: the response heads written, the relay loop's state and the bytes moved

regVars == <<pc, PROXIES, file, lastSaved, lastOp>>

vars == <<pc, PROXIES, file, lastSaved, lastOp, calls, dns, tun>>

----------------------------------------------------------------------------
\* Bounds of the exploration.

\* bind_proxy is not offered once the registry holds this many bindings.
MaxBindings == 2

\* A tunnel socket delivers at most this many bytes.
MaxTunnelBytes == 3

\* At most this many idle select timeouts of a tunnel are counted.
MaxIdle == 2

----------------------------------------------------------------------------
\* Program constants.

PORT_MIN == 6700

PORT_MAX == 6900

PROBE_LIMIT == 10

SOCKET_TIMEOUT == 30

\* find_available_port's None; `if not port` treats it like 0.
NoPort == 0

\* range(6700, 6902): the upper end off by one.
PortRangeOffByOne == PORT_MIN..(PORT_MAX + 1)

\* range(6700, 6901)
PortRange == PORT_MIN..PORT_MAX

----------------------------------------------------------------------------
\* Characters and Python's str(int) / int(str).

DigitChars == <<"0", "1", "2", "3", "4", "5", "6", "7", "8", "9">>

IsDigit(c) == \E i \in 1..10 : DigitChars[i] = c

IsSpace(c) == c \in {" ", "\t", "\n", "\r"}

IsNewline(c) == c = "\n"

DigitValue(c) == (CHOOSE i \in 1..10 : DigitChars[i] = c) - 1

RECURSIVE str(_)
str(n) ==
    IF n < 10 THEN <<DigitChars[n + 1]>>
    ELSE Append(str(n \div 10), DigitChars[(n % 10) + 1])

RECURSIVE int(_)
int(s) ==
    IF Len(s) = 0 THEN 0
    ELSE 10 * int(SubSeq(s, 1, Len(s) - 1)) + DigitValue(s[Len(s)])

\* s[lo..hi] matches \d*, \S* and .* respectively (`.` excludes the newline).
AllDigits(s, lo, hi) == \A x \in lo..hi : IsDigit(s[x])

AllNonSpace(s, lo, hi) == \A x \in lo..hi : ~IsSpace(s[x])

AllDot(s, lo, hi) == \A x \in lo..hi : ~IsNewline(s[x])

\* `$` matches at the end of the string or just before a final newline.
EndPositions(s) ==
    {Len(s)} \cup (IF Len(s) > 0 /\ IsNewline(s[Len(s)]) THEN {Len(s) - 1} ELSE {})

----------------------------------------------------------------------------
\* The two regular expressions.

\* The positions of character c in s.
Positions(s, c) == {x \in 1..Len(s) : s[x] = c}

\* s.split(c)
RECURSIVE Split(_, _)
Split(s, c) ==
    IF Positions(s, c) = {} THEN <<s>>
    ELSE LET i == CHOOSE x \in Positions(s, c) : \A y \in Positions(s, c) : x <= y
         IN <<SubSeq(s, 1, i - 1)>> \o Split(SubSeq(s, i + 1, Len(s)), c)

\* str.lower() on the ASCII letters.
ToLower ==
    "A" :> "a" @@ "B" :> "b" @@ "C" :> "c" @@ "D" :> "d" @@ "E" :> "e" @@ "F" :> "f"
      @@ "G" :> "g" @@ "H" :> "h" @@ "I" :> "i" @@ "J" :> "j" @@ "K" :> "k" @@ "L" :> "l"
      @@ "M" :> "m" @@ "N" :> "n" @@ "O" :> "o" @@ "P" :> "p" @@ "Q" :> "q" @@ "R" :> "r"
      @@ "S" :> "s" @@ "T" :> "t" @@ "U" :> "u" @@ "V" :> "v" @@ "W" :> "w" @@ "X" :> "x"
      @@ "Y" :> "y" @@ "Z" :> "z"

LowerChar(c) == IF c \in DOMAIN ToLower THEN ToLower[c] ELSE c

\* s.lower()
lower(s) == [i \in 1..Len(s) |-> LowerChar(s[i])]

\* s.startswith(prefix)
startswith(s, prefix) ==
    Len(s) >= Len(prefix) /\ SubSeq(s, 1, Len(prefix)) = prefix

\* bind_proxy: re.match(r'^(.*?):(.*?)@\S+:\d+$', proxy_string)
\* A way to match: the ':' after the first group, the '@', the ':' before the
\* port, and the end.
BindFormatSplits(s) ==
    {t \in Positions(s, ":") \X Positions(s, "@") \X Positions(s, ":") \X EndPositions(s) :
        /\ t[1] < t[2] /\ t[2] + 1 < t[3] /\ t[3] < t[4]
        /\ AllDot(s, 1, t[1] - 1)
        /\ AllDot(s, t[1] + 1, t[2] - 1)
        /\ AllNonSpace(s, t[2] + 1, t[3] - 1)
        /\ AllDigits(s, t[3] + 1, t[4])}

BindFormatMatches(s) == BindFormatSplits(s) # {}

\* parse_proxy: re.match(r'^(.*?):(.*?)@(.*?):(\d+)$', self.proxy_string)
ParseSplits(s) ==
    {t \in Positions(s, ":") \X Positions(s, "@") \X Positions(s, ":") \X EndPositions(s) :
        /\ t[1] < t[2] /\ t[2] < t[3] /\ t[3] < t[4]
        /\ AllDot(s, 1, t[1] - 1)
        /\ AllDot(s, t[1] + 1, t[2] - 1)
        /\ AllDot(s, t[2] + 1, t[3] - 1)
        /\ AllDigits(s, t[3] + 1, t[4])}

LexLess(a, b) ==
    \/ a[1] < b[1]
    \/ a[1] = b[1] /\ a[2] < b[2]
    \/ a[1] = b[1] /\ a[2] = b[2] /\ a[3] < b[3]
    \/ a[1] = b[1] /\ a[2] = b[2] /\ a[3] = b[3] /\ a[4] < b[4]

\* The lazy groups take the first split the backtracking search reaches:
\* the shortest username, then the shortest password, then the shortest server.
LazySplit(S) == CHOOSE t \in S : \A u \in S : u = t \/ LexLess(t, u)

ParseMatches(s) == ParseSplits(s) # {}

parse_proxy(s) ==
    LET t == LazySplit(ParseSplits(s)) IN
    [username |-> SubSeq(s, 1, t[1] - 1),
     password |-> SubSeq(s, t[1] + 1, t[2] - 1),
     server   |-> SubSeq(s, t[2] + 1, t[3] - 1),
     port     |-> int(SubSeq(s, t[3] + 1, t[4]))]

----------------------------------------------------------------------------
\* The dict PROXIES, kept as the sequence of its items in insertion order.

Keys(d) == {d[i].port : i \in 1..Len(d)}

\* d[k] = v: an existing key keeps its place and takes the new value.
DictSet(d, k, v) ==
    IF k \in Keys(d)
    THEN [i \in 1..Len(d) |-> IF d[i].port = k THEN v ELSE d[i]]
    ELSE Append(d, v)

\* The (port, proxy) pairs of the registry, without the runtime fields.
Bindings(d) == {<<d[i].port, d[i].proxy>> : i \in 1..Len(d)}

\* The ports whose listener thread is serving.
Listening(d) == {d[i].port : i \in {j \in 1..Len(d) : d[j].server = "serving"}}

----------------------------------------------------------------------------
\* Sockets.  `occ` is the set of ports other processes hold at the moment of
\* the call; a listening socket of this process is never closed before exit
\* (cleanup calls shutdown(), not server_close()), so every key of PROXIES
\* stays bound.

\* sock.bind(('127.0.0.1', port)) of the throwaway probe socket succeeds.
ProbeBinds(d, port, occ) == port \notin occ /\ port \notin Keys(d)

\* A listener whose bind succeeds on a port that is already held.
start_proxy_server_unchecked(d, port, occ) == TRUE

\* start_proxy_server: ThreadingHTTPServer(('127.0.0.1', port), handler)
\* binds and listens or raises; then the serve_forever thread starts.
start_proxy_server(d, port, occ) == port \notin occ /\ port \notin Keys(d)

\* create_proxy_handler: the handler class whose __init__ passes the captured
\* proxy_string to ProxyHandler.__init__; it is what self.proxy_string holds
\* in every request of that listener.
create_proxy_handler(proxy_string) == proxy_string

\* server, thread = start_proxy_server(proxy_string, port) and the value
\* stored under PROXIES[port]: the credential string, and the server with
\* the handler class it was built with.
Registered(port, proxy_string) ==
    [port |-> port, proxy |-> proxy_string, server |-> "serving",
     handler |-> create_proxy_handler(proxy_string)]

----------------------------------------------------------------------------
\* find_available_port

UsedPorts(d) == {d[i].port : i \in 1..Len(d)}

AvailablePorts(d) == PortRange \ UsedPorts(d)

\* min(len(available_ports), 10)
SampleSize(available) ==
    LET n == Cardinality(available) IN IF n < PROBE_LIMIT THEN n ELSE PROBE_LIMIT

\* The port after p in the cyclic ascending order of the candidate range.
NextCandidate(p) == IF (p + 1) \in PortRange THEN p + 1 ELSE PORT_MIN

\* random.sample(list(available_ports), n): n distinct available ports in
\* some order.  The orders explored are the ascending cyclic ones, from a
\* start port the caller draws.
RECURSIVE RandomSample(_, _, _, _)
RandomSample(available, p, n, fuel) ==
    IF n = 0 \/ fuel = 0 THEN <<>>
    ELSE IF p \in available
         THEN <<p>> \o RandomSample(available \ {p}, NextCandidate(p), n - 1, fuel - 1)
         ELSE RandomSample(available, NextCandidate(p), n, fuel - 1)

\* The loop without its probe: the first sampled port is returned as it is.
FirstBindableNoProbe(d, sample, occ) ==
    IF sample = <<>> THEN NoPort ELSE Head(sample)

\* The for loop: the first sampled port whose probe binds, else None.
RECURSIVE FirstBindable(_, _, _)
FirstBindable(d, sample, occ) ==
    IF sample = <<>> THEN NoPort
    ELSE IF ProbeBinds(d, Head(sample), occ) THEN Head(sample)
         ELSE FirstBindable(d, Tail(sample), occ)

\* The candidates the loop probed: up to and including the one returned.
RECURSIVE Probed(_, _, _)
Probed(d, sample, occ) ==
    IF sample = <<>> THEN <<>>
    ELSE IF ProbeBinds(d, Head(sample), occ) THEN <<Head(sample)>>
         ELSE <<Head(sample)>> \o Probed(d, Tail(sample), occ)

SampleOf(d, start) ==
    RandomSample(AvailablePorts(d), start, SampleSize(AvailablePorts(d)),
                 Cardinality(PortRange) + PROBE_LIMIT)

\* `if not available_ports`
NoneAvailable(d) == \A p \in PortRange : p \in UsedPorts(d)

find_available_port(d, start, occ) ==
    IF NoneAvailable(d) THEN NoPort
    ELSE FirstBindable(d, SampleOf(d, start), occ)

----------------------------------------------------------------------------
\* The persisted file.

MissingFile == [kind |-> "missing", data |-> <<>>]

\* int(s) raises ValueError unless s is a number.
IntParses(s) == Len(s) > 0 /\ AllDigits(s, 1, Len(s))

\* A save that writes the whole of each PROXIES value, server included.
RECURSIVE SaveDataWithRuntime(_)
SaveDataWithRuntime(d) ==
    IF d = <<>> THEN <<>>
    ELSE LET rest == SaveDataWithRuntime(SubSeq(d, 1, Len(d) - 1))
             e == d[Len(d)]
             item == [key |-> str(e.port),
                      value |-> [proxy |-> e.proxy, server |-> e.server]]
         IN IF \E i \in 1..Len(rest) : rest[i].key = item.key
            THEN [i \in 1..Len(rest) |-> IF rest[i].key = item.key THEN item ELSE rest[i]]
            ELSE Append(rest, item)

\* save_data[str(port)] = {'proxy': data['proxy']} for every item of PROXIES:
\* the JSON object as the sequence of its members, each a key and the object
\* under it.
RECURSIVE SaveData(_)
SaveData(d) ==
    IF d = <<>> THEN <<>>
    ELSE LET rest == SaveData(SubSeq(d, 1, Len(d) - 1))
             e == d[Len(d)]
             item == [key |-> str(e.port), value |-> [proxy |-> e.proxy]]
         IN IF \E i \in 1..Len(rest) : rest[i].key = item.key
            THEN [i \in 1..Len(rest) |-> IF rest[i].key = item.key THEN item ELSE rest[i]]
            ELSE Append(rest, item)

\* save_proxies: open(PROXY_DATA_FILE, 'w') truncates, json.dump writes; an
\* IOError from either is caught.  io: "ok", "open_fails" (the file is left
\* as it was) or "write_fails" (the file is left truncated or partial).
save_proxies(d, f, io) ==
    CASE io = "ok"          -> [kind |-> "json", data |-> SaveData(d)]
      [] io = "open_fails"  -> f
      [] io = "write_fails" -> [kind |-> "torn", data |-> <<>>]

\* load_proxies: {} when the file is missing (os.path.exists), when open
\* raises IOError ("unreadable") and when the text is not valid JSON ("torn").
load_proxies(f) == IF f.kind = "json" THEN f.data ELSE <<>>

\* load_proxies raises: the bytes of the file do not decode as text, and the
\* UnicodeDecodeError of f.read() is neither a JSONDecodeError nor an IOError.
LoadRaises(f) == f.kind = "undecodable"

\* data['proxy'] finds the key; otherwise the KeyError is raised inside the
\* try of the loop.
HasProxy(item) == "proxy" \in DOMAIN item.value

\* The loop leaving after its first item.
RestoreLoopFirstOnly(d, items, occ) ==
    IF items = <<>> THEN d
    ELSE IF ~IntParses(Head(items).key) THEN d
    ELSE LET port == int(Head(items).key)
         IN IF HasProxy(Head(items)) /\ start_proxy_server(d, port, occ)
            THEN DictSet(d, port, Registered(port, Head(items).value.proxy))
            ELSE d

\* A loop that registers every item with a 'proxy', whether or not its
\* listener started: a later key of the same port replaces the entry.
RECURSIVE RestoreLoopOverwrites(_, _, _)
RestoreLoopOverwrites(d, items, occ) ==
    IF items = <<>> THEN d
    ELSE IF ~IntParses(Head(items).key) THEN d
    ELSE LET port == int(Head(items).key)
             next == IF HasProxy(Head(items)) /\ port \notin occ
                     THEN DictSet(d, port, Registered(port, Head(items).value.proxy))
                     ELSE d
         IN RestoreLoopOverwrites(next, Tail(items), occ)

\* restore_proxies' loop over saved_proxies.items(): int(port_str) stands
\* before the try, so its ValueError ends the loop and leaves the function;
\* inside the try, an item without 'proxy' or a listener that cannot start is
\* reported and skipped.
RECURSIVE RestoreLoop(_, _, _)
RestoreLoop(d, items, occ) ==
    IF items = <<>> THEN d
    ELSE IF ~IntParses(Head(items).key) THEN d
    ELSE LET port == int(Head(items).key)
             next == IF HasProxy(Head(items)) /\ start_proxy_server(d, port, occ)
                     THEN DictSet(d, port, Registered(port, Head(items).value.proxy))
                     ELSE d
         IN RestoreLoop(next, Tail(items), occ)

restore_proxies(f, occ) == RestoreLoop(<<>>, load_proxies(f), occ)

\* restore_proxies lets an exception through to main, which ends the process
\* with a traceback before the menu is shown.
RestoreRaises(f) ==
    \/ LoadRaises(f)
    \/ \E i \in 1..Len(load_proxies(f)) : ~IntParses(load_proxies(f)[i].key)

\* The ports restore_proxies could not start a listener on.
RestoreFailures(f, occ) ==
    {int(load_proxies(f)[i].key) :
        i \in {j \in 1..Len(load_proxies(f)) : IntParses(load_proxies(f)[j].key)}}
      \ Keys(restore_proxies(f, occ))

\* cleanup's loop: server.shutdown() on every item.
ShutdownAll(d) == [i \in 1..Len(d) |-> [d[i] EXCEPT !.server = "shutdown"]]

----------------------------------------------------------------------------
\* Inputs.

\* Credential strings typed at the prompt or passed to --bind.
CredInputs ==
    { <<"u", ":", "p", "@", "h", ":", "1">>,
      <<":", "@", "h", ":", "1">>,
      <<"u", ":", "p", "@", ":", "1">>,
      <<"u", ":", "p", "@", "h">> }

\* Ports held by other processes at the moment of a call.
OccChoices ==
    { {}, PORT_MIN..(PORT_MIN + PROBE_LIMIT - 1), {PORT_MAX} }

\* The probes explored: where the sample starts, and the ports other
\* processes hold while find_available_port runs.
ProbeChoices ==
    { <<PORT_MIN, {}>>, <<PORT_MIN, PORT_MIN..(PORT_MIN + PROBE_LIMIT - 1)>>,
      <<PORT_MAX, {}>>, <<PORT_MAX, {PORT_MAX}>> }

IoOutcomes == {"ok", "open_fails", "write_fails"}

\* No forward: the fwd part of a request that do_method did not handle.
NoForward ==
    [stage |-> "none", tls |-> FALSE, host |-> <<>>, port |-> 0, path |-> <<>>,
     request |-> [path |-> <<>>, headers |-> <<>>], sent |-> <<>>,
     response |-> <<>>, returned |-> <<>>, opened |-> FALSE, closed |-> FALSE]

\* No lookup: the lookup part of a request that resolved no name.
NoLookup == [host |-> <<>>, udp |-> "none", doh |-> "none"]

\* No request: the request part of an operation that is not one.
NoRequest ==
    [method |-> "none", handler |-> "none", head |-> <<>>, connect |-> "none",
     status |-> 0, target |-> <<>>, after |-> NoPort, fwd |-> NoForward,
     lookup |-> NoLookup]

NoOp(name) ==
    [op |-> name, arg |-> <<>>, port |-> NoPort, probed |-> <<>>, occ |-> {},
     raced |-> FALSE, started |-> FALSE, io |-> "none", failed |-> {},
     crashed |-> FALSE, how |-> "none", saves |-> 0, left |-> {}, cut |-> FALSE,
     nested |-> FALSE, req |-> NoRequest]

\* The threads that call bind_proxy at the same time.
Callers == {1, 2}

IdleCall == [pc |-> "idle", arg |-> <<>>, port |-> NoPort, buf |-> <<>>]

NoResolution == [host |-> "", done |-> FALSE]

NoTunnel ==
    [state |-> "none", head |-> <<>>,
     recv |-> [s \in {"browser", "target"} |-> <<>>],
     sent |-> [s \in {"browser", "target"} |-> <<>>],
     closed |-> {}, closeRaised |-> {}, pass |-> <<>>, idle |-> 0, waited |-> 0]

----------------------------------------------------------------------------
\* The process.

Init ==
    /\ pc = "stopped"
    /\ PROXIES = <<>>
    /\ file = MissingFile
    /\ lastSaved = {}
    /\ lastOp = NoOp("init")
    /\ calls = [t \in Callers |-> IdleCall]
    /\ dns = NoResolution
    /\ tun = NoTunnel

\* main(): PROXIES = {}; restore_proxies(); the SIGINT handler is installed.
\* An exception of restore_proxies ends the process there.
Startup(occ) ==
    /\ pc = "stopped"
    /\ PROXIES' = IF RestoreRaises(file) THEN <<>> ELSE restore_proxies(file, occ)
    /\ pc' = IF RestoreRaises(file) THEN "stopped" ELSE "menu"
    /\ lastOp' = [NoOp("restore") EXCEPT !.occ = occ,
                                         !.failed = RestoreFailures(file, occ),
                                         !.crashed = RestoreRaises(file)]
    /\ UNCHANGED <<file, lastSaved, calls, dns, tun>>

\* bind_proxy once the format check has passed and find_available_port has
\* returned `port`.  raced: another process takes the port between the probe
\* and the listener's own bind.
BindChosen(s, port, op) ==
    IF port = NoPort
    THEN /\ lastOp' = op
         /\ UNCHANGED <<pc, PROXIES, file, lastSaved>>
    ELSE \E raced \in BOOLEAN :
         IF ~start_proxy_server(PROXIES, port, IF raced THEN {port} ELSE {})
         THEN /\ lastOp' = [op EXCEPT !.raced = raced]
              /\ UNCHANGED <<pc, PROXIES, file, lastSaved>>
         ELSE \E io \in IoOutcomes :
              LET d == DictSet(PROXIES, port, Registered(port, s))
              IN /\ PROXIES' = d
                 /\ file' = save_proxies(d, file, io)
                 /\ lastSaved' = IF io = "ok" THEN Bindings(d) ELSE lastSaved
                 /\ lastOp' = [op EXCEPT !.raced = raced, !.started = TRUE, !.io = io]
                 /\ UNCHANGED pc

\* bind_proxy(proxy_string), from the menu or from --cli --bind.
bind_proxy(s) ==
    /\ pc = "menu"
    /\ Len(PROXIES) < MaxBindings
    /\ UNCHANGED <<calls, dns, tun>>
    /\ IF ~BindFormatMatches(s)
       THEN /\ lastOp' = [NoOp("bind") EXCEPT !.arg = s]
            /\ UNCHANGED <<pc, PROXIES, file, lastSaved>>
       ELSE \E pr \in ProbeChoices :
            LET start == pr[1]
                occ == pr[2]
                probed == IF NoneAvailable(PROXIES) THEN <<>>
                          ELSE Probed(PROXIES, SampleOf(PROXIES, start), occ)
                port == find_available_port(PROXIES, start, occ)
            IN BindChosen(s, port,
                          [NoOp("bind") EXCEPT !.arg = s, !.port = port,
                                               !.probed = probed, !.occ = occ])

\* cleanup(), called by the menu's Exit / Esc: server.shutdown() on every
\* item, then save_proxies().  The menu loop then breaks and main returns.
cleanup(io) ==
    /\ pc = "menu"
    /\ PROXIES' = ShutdownAll(PROXIES)
    /\ file' = save_proxies(ShutdownAll(PROXIES), file, io)
    /\ lastSaved' = IF io = "ok" THEN Bindings(PROXIES) ELSE lastSaved
    /\ pc' = "cleaned"
    /\ lastOp' = [NoOp("cleanup") EXCEPT !.io = io, !.saves = 1]
    /\ UNCHANGED <<calls, dns, tun>>

\* The process ends while tunnels are joined first: a relay that is running
\* goes on, its sockets open.
ProcessEndsJoiningTunnels(t) == t

\* The process ends.  The server threads (line 542), the handler threads of
\* ThreadingHTTPServer and the tunnel thread (line 473) are daemon threads:
\* the interpreter does not wait for them, and every socket of the process,
\* those of a running relay included, is closed with it.
ProcessEnds(t) ==
    IF t.state = "relay" THEN [t EXCEPT !.state = "closed", !.closed = {"browser", "target"}]
    ELSE t

\* SIGINT: the handler installed by main, lambda: (cleanup(), sys.exit(0)).
\* It stays installed until the process is gone, so it also runs when the
\* signal arrives after the menu's own cleanup() and before main has
\* returned.  sys.exit(0) then ends the process.
sigint(io) ==
    /\ pc \in {"menu", "cleaned"}
    /\ file' = save_proxies(ShutdownAll(PROXIES), file, io)
    /\ lastSaved' = IF io = "ok" THEN Bindings(PROXIES) ELSE lastSaved
    /\ PROXIES' = <<>>
    /\ pc' = "stopped"
    /\ lastOp' = [NoOp("exit") EXCEPT
                     !.how = "sigint", !.io = io,
                     !.saves = (IF pc = "cleaned" THEN lastOp.saves ELSE 0) + 1,
                     !.left = Listening(ShutdownAll(PROXIES)),
                     !.cut = tun.state = "relay"]
    /\ tun' = ProcessEnds(tun)
    /\ UNCHANGED <<calls, dns>>

\* The process ends without a signal: main returns after the menu's cleanup
\* and break ("menu"), or --cli returns from main right after bind_proxy
\* ("return").  Its memory and its sockets are gone.
ProcessExit ==
    /\ pc \in {"menu", "cleaned"}
    /\ pc' = "stopped"
    /\ PROXIES' = <<>>
    /\ lastOp' = [NoOp("exit") EXCEPT
                     !.how = IF pc = "cleaned" THEN "menu" ELSE "return",
                     !.saves = IF pc = "cleaned" THEN lastOp.saves ELSE 0,
                     !.left = Listening(PROXIES),
                     !.cut = tun.state = "relay"]
    /\ tun' = ProcessEnds(tun)
    /\ UNCHANGED <<file, lastSaved, calls, dns>>

Next ==
    \/ \E occ \in OccChoices : Startup(occ)
    \/ \E s \in CredInputs : bind_proxy(s)
    \/ \E io \in IoOutcomes : cleanup(io)
    \/ \E io \in IoOutcomes : sigint(io)
    \/ ProcessExit

Spec == Init /\ [][Next]_vars

----------------------------------------------------------------------------
\* The persisted file changed from outside between two runs of the process:
\* edited, damaged, or made unreadable.

\* Members of an edited file: two that save_proxies could have written, one
\* whose key is not a number, one whose value has no 'proxy', one whose key
\* spells the port of another, one whose credential string is not of the
\* user:pass@host:port shape.
ItemA ==
    [key |-> str(PORT_MIN), value |-> [proxy |-> <<"u", ":", "p", "@", "h", ":", "1">>]]

ItemB ==
    [key |-> str(PORT_MIN + 1), value |-> [proxy |-> <<":", "@", "h", ":", "1">>]]

ItemBadKey ==
    [key |-> <<"x">>, value |-> [proxy |-> <<"u", ":", "p", "@", "h", ":", "1">>]]

ItemNoProxy ==
    [key |-> str(PORT_MIN + 2), value |-> [note |-> <<"n">>]]

\* A second key that int() turns into the port of ItemA, with another
\* credential string.
ItemAlias ==
    [key |-> <<"0">> \o str(PORT_MIN), value |-> [proxy |-> <<"v", ":", "q", "@", "g", ":", "2">>]]

\* A member whose credential string parse_proxy's pattern does not match.
ItemBadCred ==
    [key |-> str(PORT_MIN + 1), value |-> [proxy |-> <<"u", ":", "p", "@", "h">>]]

\* What ~/.bindproxy.json may be when main starts: absent; not openable
\* (open raises IOError); bytes that do not decode as text; text that is not
\* JSON; or a JSON object.
EditedFiles ==
    { [kind |-> k, data |-> <<>>] : k \in {"missing", "unreadable", "undecodable", "torn"} }
      \cup { [kind |-> "json", data |-> d] :
                d \in { <<ItemA, ItemB>>, <<ItemNoProxy, ItemA>>, <<ItemBadKey, ItemA>>,
                        <<ItemA, ItemBadKey>>, <<ItemA, ItemNoProxy, ItemB>>,
                        <<ItemA, ItemAlias>>, <<ItemA, ItemBadCred>> } }

\* The file is replaced while no process runs.
FileReplaced(f) ==
    /\ pc = "stopped"
    /\ file' = f
    /\ lastOp' = NoOp("edit")
    /\ UNCHANGED <<pc, PROXIES, lastSaved, calls, dns, tun>>

\* bind_proxy where no other process holds a port during the probe and the
\* sample does not start at the top of the range.
RestoreBind(s) ==
    /\ bind_proxy(s)
    /\ lastOp'.occ = {}
    /\ lastOp'.port # PORT_MAX

NextRestore ==
    \/ \E f \in EditedFiles : FileReplaced(f)
    \/ \E occ \in OccChoices : Startup(occ)
    \/ \E s \in CredInputs : RestoreBind(s)
    \/ \E io \in IoOutcomes : cleanup(io)
    \/ ProcessExit

SpecRestore == Init /\ [][NextRestore]_vars

----------------------------------------------------------------------------
\* bind_proxy called from two threads at once.  The source takes no lock, so
\* the calls interleave between find_available_port, start_proxy_server and
\* the registration.

\* The listening sockets of calls that have started a server and not yet
\* registered it.
StartedPorts == {calls[t].port : t \in {u \in Callers : calls[u].pc = "started"}}

\* The format check at the head of bind_proxy.
ConcCall(t, s) ==
    /\ pc = "menu"
    /\ calls[t].pc = "idle"
    /\ Len(PROXIES) < MaxBindings
    /\ calls' = [calls EXCEPT ![t] =
                    IF BindFormatMatches(s)
                    THEN [pc |-> "checked", arg |-> s, port |-> NoPort, buf |-> <<>>]
                    ELSE [pc |-> "done", arg |-> s, port |-> NoPort, buf |-> <<>>]]
    /\ UNCHANGED <<regVars, dns, tun>>

\* port = find_available_port(); a port another call's server already listens
\* on fails the probe like one held by another process.
ConcProbe(t, pr) ==
    /\ pc = "menu"
    /\ calls[t].pc = "checked"
    /\ LET port == find_available_port(PROXIES, pr[1], pr[2] \cup StartedPorts)
       IN calls' = [calls EXCEPT ![t] =
                       [@ EXCEPT !.pc = IF port = NoPort THEN "done" ELSE "probed",
                                 !.port = port]]
    /\ UNCHANGED <<regVars, dns, tun>>

\* server, thread = start_proxy_server(proxy_string, port); an exception ends
\* the call.
ConcStart(t) ==
    /\ pc = "menu"
    /\ calls[t].pc = "probed"
    /\ calls' = [calls EXCEPT ![t].pc =
                    IF start_proxy_server(PROXIES, calls[t].port, StartedPorts)
                    THEN "started" ELSE "failed"]
    /\ UNCHANGED <<regVars, dns, tun>>

\* PROXIES[port] = {...}; save_proxies()
ConcRegister(t, io) ==
    /\ pc = "menu"
    /\ calls[t].pc = "started"
    /\ LET d == DictSet(PROXIES, calls[t].port, Registered(calls[t].port, calls[t].arg))
       IN /\ PROXIES' = d
          /\ file' = save_proxies(d, file, io)
          /\ lastSaved' = IF io = "ok" THEN Bindings(d) ELSE lastSaved
    /\ calls' = [calls EXCEPT ![t].pc = "done"]
    /\ UNCHANGED <<pc, lastOp, dns, tun>>

\* The call has returned; the thread may call again.
ConcReturn(t) ==
    /\ calls[t].pc \in {"done", "failed"}
    /\ calls' = [calls EXCEPT ![t] = IdleCall]
    /\ UNCHANGED <<regVars, dns, tun>>

NextConc ==
    \/ \E occ \in OccChoices : Startup(occ)
    \/ \E t \in Callers, s \in CredInputs : ConcCall(t, s)
    \/ \E t \in Callers, pr \in ProbeChoices : ConcProbe(t, pr)
    \/ \E t \in Callers : ConcStart(t)
    \/ \E t \in Callers, io \in IoOutcomes : ConcRegister(t, io)
    \/ \E t \in Callers : ConcReturn(t)

SpecConc == Init /\ [][NextConc]_vars

----------------------------------------------------------------------------
\* The DNS override chain.  What the network answers at each step is an
\* input: whether the call raises, and what it returns otherwise.

\* dns.query.udp(query, '1.1.1.1', timeout=2): response.answer is a list of
\* rrsets, each a list of items [rdtype, address].
DirectOutcomes ==
    { [raises |-> TRUE, answer |-> <<>>],
      [raises |-> FALSE, answer |-> <<>>],
      [raises |-> FALSE, answer |-> << <<[rdtype |-> "CNAME", address |-> "alias"]>> >>],
      [raises |-> FALSE,
       answer |-> << <<[rdtype |-> "CNAME", address |-> "alias"]>>,
                     <<[rdtype |-> "A", address |-> "192.0.2.1"],
                       [rdtype |-> "A", address |-> "192.0.2.2"]>> >>] }

\* GET https://cloudflare-dns.com/dns-query: the status, and the decoded JSON
\* (whether it has an 'Answer' key, and the list under it).
DohOutcomes ==
    { [raises |-> TRUE, status |-> 0, hasAnswer |-> FALSE, answer |-> <<>>],
      [raises |-> FALSE, status |-> 503, hasAnswer |-> FALSE, answer |-> <<>>],
      [raises |-> FALSE, status |-> 200, hasAnswer |-> FALSE, answer |-> <<>>],
      [raises |-> FALSE, status |-> 200, hasAnswer |-> TRUE,
       answer |-> <<[type |-> 5, data |-> "alias"]>>],
      [raises |-> FALSE, status |-> 200, hasAnswer |-> TRUE,
       answer |-> <<[type |-> 5, data |-> "alias"], [type |-> 1, data |-> "198.51.100.1"]>>] }

\* dns.resolver.Resolver().resolve(hostname, 'A') with nameservers 1.1.1.1, 1.0.0.1
ResolverOutcomes ==
    { [raises |-> TRUE, answers |-> <<>>],
      [raises |-> FALSE, answers |-> <<>>],
      [raises |-> FALSE, answers |-> <<"203.0.113.1", "203.0.113.2">>] }

\* socket.gethostbyname(hostname)
SystemOutcomes ==
    { [raises |-> TRUE, ip |-> ""],
      [raises |-> FALSE, ip |-> "10.0.0.7"] }

Hostnames == {"example.com", "intranet"}

\* Flattening of `for answer in response.answer: for item in answer.items`.
RECURSIVE Items(_)
Items(answer) == IF answer = <<>> THEN <<>> ELSE Head(answer) \o Items(Tail(answer))

\* The first item of rdtype A, if any.
DirectARecords(direct) ==
    {i \in 1..Len(Items(direct.answer)) : Items(direct.answer)[i].rdtype = "A"}

DirectHasA(direct) == DirectARecords(direct) # {}

DirectFirstA(direct) ==
    Items(direct.answer)[CHOOSE i \in DirectARecords(direct) :
                            \A j \in DirectARecords(direct) : i <= j].address

\* The first entry of result['Answer'] whose type is 1.
DohARecords(doh) == {i \in 1..Len(doh.answer) : doh.answer[i].type = 1}

DohHasA(doh) == doh.status = 200 /\ doh.hasAnswer /\ DohARecords(doh) # {}

DohFirstA(doh) ==
    doh.answer[CHOOSE i \in DohARecords(doh) : \A j \in DohARecords(doh) : i <= j].data

Attempt(step, name) == <<[step |-> step, name |-> name]>>

\* The body of resolve_doh's first try: the DoH request, then the dnspython
\* resolver.  kind: "return" (a value was returned), "raise" (an exception
\* left the body) or "fall" (the body ended without returning).
DohTry(hostname, doh, std) ==
    LET t1 == Attempt("doh", hostname)
        t2 == t1 \o Attempt("resolver", hostname)
    IN IF doh.raises THEN [kind |-> "raise", value |-> "", trace |-> t1]
       ELSE IF DohHasA(doh) THEN [kind |-> "return", value |-> DohFirstA(doh), trace |-> t1]
       ELSE IF std.raises THEN [kind |-> "raise", value |-> "", trace |-> t2]
       ELSE IF std.answers # <<>> THEN [kind |-> "return", value |-> std.answers[1], trace |-> t2]
       ELSE [kind |-> "fall", value |-> "", trace |-> t2]

\* resolve_doh whose last `except:` lets the exception through.
resolve_doh_reraises(hostname, doh, std, sys) ==
    LET a == DohTry(hostname, doh, std)
        t == a.trace \o Attempt("system", hostname)
    IN IF a.kind = "return" THEN [raised |-> FALSE, value |-> a.value, trace |-> a.trace]
       ELSE IF ~sys.raises THEN [raised |-> FALSE, value |-> sys.ip, trace |-> t]
       ELSE [raised |-> TRUE, value |-> "", trace |-> t]

\* resolve_doh: `except Exception` swallows what the first try raised; then
\* socket.gethostbyname, and the hostname itself when that raises too.
resolve_doh(hostname, doh, std, sys) ==
    LET a == DohTry(hostname, doh, std)
        t == a.trace \o Attempt("system", hostname)
    IN IF a.kind = "return" THEN [raised |-> FALSE, value |-> a.value, trace |-> a.trace]
       ELSE IF ~sys.raises THEN [raised |-> FALSE, value |-> sys.ip, trace |-> t]
       ELSE [raised |-> FALSE, value |-> hostname,
             trace |-> t \o Attempt("literal", hostname)]

\* cloudflare_dns_query whose except clause goes to the system resolver.
cloudflare_dns_query_skips_doh(hostname, direct, doh, std, sys) ==
    LET t0 == Attempt("direct", hostname)
        r == resolve_doh(hostname, doh, std, sys)
    IN IF direct.raises
       THEN IF ~sys.raises
            THEN [raised |-> FALSE, value |-> sys.ip,
                  trace |-> t0 \o Attempt("system", hostname)]
            ELSE [raised |-> FALSE, value |-> hostname,
                  trace |-> t0 \o Attempt("system", hostname) \o Attempt("literal", hostname)]
       ELSE IF DirectHasA(direct)
       THEN [raised |-> FALSE, value |-> DirectFirstA(direct), trace |-> t0]
       ELSE [r EXCEPT !.trace = t0 \o r.trace]

\* cloudflare_dns_query: the direct UDP query; without an A record, or on any
\* exception, resolve_doh(hostname).  An exception of the resolve_doh call
\* inside the try is caught by the same except clause, which calls it again.
cloudflare_dns_query(hostname, direct, doh, std, sys) ==
    LET t0 == Attempt("direct", hostname)
        r == resolve_doh(hostname, doh, std, sys)
    IN IF direct.raises THEN [r EXCEPT !.trace = t0 \o r.trace]
       ELSE IF DirectHasA(direct)
       THEN [raised |-> FALSE, value |-> DirectFirstA(direct), trace |-> t0]
       ELSE IF r.raised THEN [r EXCEPT !.trace = t0 \o r.trace \o r.trace]
       ELSE [r EXCEPT !.trace = t0 \o r.trace]

\* One resolution, as SocksHTTPConnection.__init__ and
\* CloudflareDNSSocket.resolve ask for it.
Resolve(hostname, direct, doh, std, sys) ==
    /\ dns' = [host |-> hostname, done |-> TRUE, direct |-> direct, doh |-> doh,
               std |-> std, sys |-> sys,
               out |-> cloudflare_dns_query(hostname, direct, doh, std, sys)]
    /\ UNCHANGED <<regVars, calls, tun>>

NextDns ==
    \E hostname \in Hostnames, direct \in DirectOutcomes, doh \in DohOutcomes,
       std \in ResolverOutcomes, sys \in SystemOutcomes :
        Resolve(hostname, direct, doh, std, sys)

SpecDns == Init /\ [][NextDns]_vars

----------------------------------------------------------------------------
\* The CONNECT tunnel relay, _tunnel_sockets(browser_sock, target_sock).
\* tun.recv[s] are the bytes recv() has returned from socket s, tun.sent[s]
\* the bytes written to socket s, in order.  tun.pass lists the calls the
\* latest pass of the loop made, each with its outcome; tun.closed are the
\* sockets close() has been called on, tun.closeRaised those whose close()
\* raised.

Socks == {"browser", "target"}

\* What recv(16384) returns.
Chunks == { <<"a">>, <<"b", "c">> }

\* sock.recv: raises, returns b'' (the peer closed) or returns a chunk.
RecvOutcomes ==
    { [kind |-> "raise", data |-> <<>>], [kind |-> "eof", data |-> <<>>] }
        \cup { [kind |-> "data", data |-> c] : c \in Chunks }

\* other_sock.sendall(data): writes everything, or raises after `wrote` bytes.
SendOutcomes ==
    { [ok |-> TRUE, wrote |-> 0], [ok |-> FALSE, wrote |-> 0], [ok |-> FALSE, wrote |-> 1] }

\* select.select(sockets, [], sockets, SOCKET_TIMEOUT): raises, reports an
\* exceptional socket, times out, or lists the readable sockets in the order
\* of `sockets`.
SelectOutcomes ==
    { [kind |-> "raise", readable |-> <<>>],
      [kind |-> "exceptional", readable |-> <<>>],
      [kind |-> "timeout", readable |-> <<>>],
      [kind |-> "ready", readable |-> <<"browser">>],
      [kind |-> "ready", readable |-> <<"target">>],
      [kind |-> "ready", readable |-> <<"browser", "target">>] }

\* other_sock written back to the socket the data came from.
OtherSockSame(sock) == sock

\* other_sock = target_sock if sock == browser_sock else browser_sock
OtherSock(sock) == IF sock = "browser" THEN "target" ELSE "browser"

\* sock.close() of each socket: whether it raises.
CloseOutcomes == [Socks -> BOOLEAN]

\* A call of the loop and how it came out.
Called(call, sock, out) == <<[call |-> call, sock |-> sock, out |-> out]>>

\* A finally clause with both close() calls in one try: an exception of the
\* first skips the second.
CloseBothOneTry(t, cls) ==
    [t EXCEPT !.state = "closed",
              !.closed = IF cls["browser"] THEN {"browser"} ELSE Socks,
              !.closeRaised = IF cls["browser"] THEN {"browser"}
                              ELSE {s \in Socks : cls[s]}]

\* The finally clause: browser_sock.close(), then target_sock.close(), each
\* in a try of its own whose bare except swallows the error.
CloseBoth(t, cls) ==
    [t EXCEPT !.state = "closed", !.closed = Socks,
              !.closeRaised = {s \in Socks : cls[s]}]

\* The body of `for sock in readable` for one socket: recv, then sendall to
\* the other socket; an empty read or an exception returns from the function.
RelayOne(t, sock, rcv, snd, cls) ==
    IF rcv.kind # "data"
    THEN CloseBoth([t EXCEPT !.pass = @ \o Called("recv", sock, rcv.kind)], cls)
    ELSE LET got == [t EXCEPT !.recv[sock] = @ \o rcv.data,
                              !.pass = @ \o Called("recv", sock, "data")]
         IN IF snd.ok
            THEN [got EXCEPT !.sent[OtherSock(sock)] = @ \o rcv.data,
                             !.pass = @ \o Called("sendall", OtherSock(sock), "ok")]
            ELSE CloseBoth([got EXCEPT !.sent[OtherSock(sock)] =
                                           @ \o SubSeq(rcv.data, 1, snd.wrote),
                                       !.pass = @ \o Called("sendall", OtherSock(sock), "raise")],
                           cls)

\* The for loop over the readable sockets; it ends with the function.
RECURSIVE RelayAll(_, _, _, _, _)
RelayAll(t, readable, rcv, snd, cls) ==
    IF readable = <<>> \/ t.state # "relay" THEN t
    ELSE RelayAll(RelayOne(t, Head(readable), rcv[Head(readable)], snd[Head(readable)], cls),
                  Tail(readable), rcv, snd, cls)

\* One pass of `while True`.  On a timeout select returns three empty lists
\* and the loop `continue`s.
LoopPass(t, sel, rcv, snd, cls) ==
    LET t0 == [t EXCEPT !.pass = Called("select", "both", sel.kind)]
    IN CASE sel.kind = "raise"       -> CloseBoth(t0, cls)
         [] sel.kind = "exceptional" -> CloseBoth(t0, cls)
         [] sel.kind = "timeout"     ->
               [t0 EXCEPT !.idle = @ + 1, !.waited = @ + SOCKET_TIMEOUT]
         [] sel.kind = "ready"       -> RelayAll(t0, sel.readable, rcv, snd, cls)

----------------------------------------------------------------------------
\* The request handlers of a listener.  A request is one operation: lastOp
\* records the listener's port, the credential string the handler used
\* (self.proxy_string) and, under req, the method, the do_* method that ran,
\* the response heads written to the client, how the upstream connect came
\* out and the address it was asked for.

\* The methods ProxyHandler defines do_GET .. do_OPTIONS for.
ForwardedMethods == {"GET", "POST", "PUT", "DELETE", "PATCH", "OPTIONS"}

\* The methods of the requests explored.
RequestMethods == {"GET", "HEAD", "CONNECT"}

\* BaseHTTPRequestHandler looks up 'do_' + command on the handler and answers
\* 501 when there is no such method.
Dispatch(method) ==
    IF method \in ForwardedMethods THEN "do_method"
    ELSE IF method = "CONNECT" THEN "do_CONNECT"
    ELSE "send_error_501"

\* What the upstream does: the SOCKS5 connect through the credential's
\* server ("ok", "refused", or "auth_rejected" by the handshake), the status
\* and the headers of the response the target then gives, and the call of
\* do_method that raises once the connect has succeeded: "send"
\* (connection.request), "head" (connection.getresponse), "body"
\* (response.read or wfile.write inside the while loop) or "none".
UpstreamOutcomes ==
    { [connect |-> "ok", status |-> 200, fail |-> "none", headers |-> <<>>],
      [connect |-> "ok", status |-> 503, fail |-> "none", headers |-> <<>>],
      [connect |-> "refused", status |-> 0, fail |-> "none", headers |-> <<>>],
      [connect |-> "auth_rejected", status |-> 0, fail |-> "none", headers |-> <<>>] }

\* The previous operation, when it was a request answered with a 5xx head:
\* the port it arrived on.
AfterFailure ==
    IF /\ lastOp.op = "request"
       /\ \E i \in 1..Len(lastOp.req.head) : lastOp.req.head[i] >= 500
    THEN lastOp.port ELSE NoPort

\* Header names the handler looks up.
HostName == <<"H", "o", "s", "t">>

ContentLengthName == <<"C", "o", "n", "t", "e", "n", "t", "-", "L", "e", "n", "g", "t", "h">>

\* The list of line 348, compared with header.lower().
RequestHopByHop ==
    { <<"c", "o", "n", "n", "e", "c", "t", "i", "o", "n">>,
      <<"k", "e", "e", "p", "-", "a", "l", "i", "v", "e">>,
      <<"p", "r", "o", "x", "y", "-", "c", "o", "n", "n", "e", "c", "t", "i", "o", "n">>,
      <<"u", "p", "g", "r", "a", "d", "e">>,
      <<"t", "r", "a", "n", "s", "f", "e", "r", "-", "e", "n", "c", "o", "d", "i", "n", "g">> }

\* The list of line 363, compared with header.lower().
ResponseHopByHop ==
    { <<"c", "o", "n", "n", "e", "c", "t", "i", "o", "n">>,
      <<"t", "r", "a", "n", "s", "f", "e", "r", "-", "e", "n", "c", "o", "d", "i", "n", "g">> }

\* The five headers set on the upstream request after the copy.
InjectedRequestHeaders ==
    <<[name |-> <<"C", "F", "-", "C", "o", "n", "n", "e", "c", "t", "i", "n", "g", "-", "I", "P">>, value |-> <<"1">>],
      [name |-> <<"C", "F", "-", "D", "N", "S", "-", "I", "D">>, value |-> <<"c">>],
      [name |-> <<"X", "-", "D", "N", "S", "-", "P", "r", "e", "f", "e", "t", "c", "h", "-", "C", "o", "n", "t", "r", "o", "l">>, value |-> <<"o", "n">>],
      [name |-> <<"A", "c", "c", "e", "p", "t", "-", "C", "H">>, value |-> <<"S">>],
      [name |-> <<"S", "e", "c", "-", "C", "H", "-", "U", "A", "-", "P", "l", "a", "t", "f", "o", "r", "m", "-", "V", "e", "r", "s", "i", "o", "n">>, value |-> <<"C">>]>>

\* The two headers sent to the client after the upstream's.
InjectedResponseHeaders ==
    <<[name |-> <<"C", "F", "-", "D", "N", "S", "-", "U", "s", "e", "d">>, value |-> <<"1">>],
      [name |-> <<"C", "F", "-", "R", "A", "Y">>, value |-> <<"c">>]>>

\* self.headers.get(name): header names are matched without regard to case
\* and the first match is returned.
HeaderIndexes(headers, name) ==
    {i \in 1..Len(headers) : lower(headers[i].name) = lower(name)}

HasHeader(headers, name) == HeaderIndexes(headers, name) # {}

HeaderGet(headers, name) ==
    headers[CHOOSE i \in HeaderIndexes(headers, name) :
                \A j \in HeaderIndexes(headers, name) : i <= j].value

\* headers[header] = value on a dict: a key already present keeps its place
\* and takes the new value.
HeaderSet(h, name, value) ==
    IF \E i \in 1..Len(h) : h[i].name = name
    THEN [i \in 1..Len(h) |-> IF h[i].name = name THEN [h[i] EXCEPT !.value = value] ELSE h[i]]
    ELSE Append(h, [name |-> name, value |-> value])

RECURSIVE HeaderSetAll(_, _)
HeaderSetAll(h, pairs) ==
    IF pairs = <<>> THEN h
    ELSE HeaderSetAll(HeaderSet(h, Head(pairs).name, Head(pairs).value), Tail(pairs))

\* The loop of lines 347-349: the request's headers whose lower-cased name is
\* not in the list, collected in a dict.
RECURSIVE CopyRequestHeaders(_, _)
CopyRequestHeaders(h, headers) ==
    IF headers = <<>> THEN h
    ELSE CopyRequestHeaders(
            IF lower(Head(headers).name) \in RequestHopByHop THEN h
            ELSE HeaderSet(h, Head(headers).name, Head(headers).value),
            Tail(headers))

\* The headers passed to connection.request (lines 346-354).
RequestHeaders(headers) ==
    HeaderSetAll(CopyRequestHeaders(<<>>, headers), InjectedRequestHeaders)

\* The loop of lines 362-364: send_header for every header of the upstream
\* response whose lower-cased name is not in the list.
RECURSIVE CopyResponseHeaders(_)
CopyResponseHeaders(headers) ==
    IF headers = <<>> THEN <<>>
    ELSE (IF lower(Head(headers).name) \in ResponseHopByHop THEN <<>> ELSE <<Head(headers)>>)
            \o CopyResponseHeaders(Tail(headers))

\* The headers written to the client (lines 362-367).
ResponseHeaders(headers) == CopyResponseHeaders(headers) \o InjectedResponseHeaders

\* The first position of character c in s, which holds one.
FirstPosition(s, c) == CHOOSE x \in Positions(s, c) : \A y \in Positions(s, c) : x <= y

\* urlparse(url), for a URL without userinfo, query or fragment: the scheme
\* is the lower-cased text before the first ':', the netloc what follows
\* '//' up to the next '/', the hostname and the port text its two sides of
\* the first ':'.
urlparse(url) ==
    LET i == IF Positions(url, ":") = {} THEN 0 ELSE FirstPosition(url, ":")
        rest == SubSeq(url, i + 1, Len(url))
        hasNetloc == startswith(rest, <<"/", "/">>)
        after == SubSeq(rest, 3, Len(rest))
        netloc == IF ~hasNetloc THEN <<>>
                  ELSE IF Positions(after, "/") = {} THEN after
                  ELSE SubSeq(after, 1, FirstPosition(after, "/") - 1)
        j == IF Positions(netloc, ":") = {} THEN Len(netloc) + 1 ELSE FirstPosition(netloc, ":")
    IN [scheme |-> lower(SubSeq(url, 1, i - 1)),
        hostname |-> lower(SubSeq(netloc, 1, j - 1)),
        portText |-> SubSeq(netloc, j + 1, Len(netloc)),
        path |-> IF hasNetloc THEN SubSeq(after, Len(netloc) + 1, Len(after)) ELSE rest]

\* url.port: None (here 0) without a port text, ValueError when the text is
\* not a number of 0..65535.
UrlPortRaises(url) ==
    url.portText # <<>> /\ (~IntParses(url.portText) \/ int(url.portText) > 65535)

UrlPort(url) == IF url.portText = <<>> THEN 0 ELSE int(url.portText)

\* Lines 305-345: the upstream session do_method opens for a request.
\* kind is "no_host" (no Host header, or an empty one), "raise" (the
\* unpacking of host.split(':'), int(port) or url.port raises) or "ok"; tls
\* tells SocksHTTPSConnection from SocksHTTPConnection.
Target(rq) ==
    IF ~HasHeader(rq.headers, HostName) \/ HeaderGet(rq.headers, HostName) = <<>>
    THEN [kind |-> "no_host", tls |-> FALSE, host |-> <<>>, port |-> 0, path |-> <<>>]
    ELSE LET host == HeaderGet(rq.headers, HostName)
             parts == Split(host, ":")
             colon == Positions(host, ":") # {}
         IN IF colon /\ (Len(parts) # 2 \/ ~IntParses(parts[2]))
            THEN [kind |-> "raise", tls |-> FALSE, host |-> <<>>, port |-> 0, path |-> <<>>]
            ELSE LET port == IF colon THEN int(parts[2])
                             ELSE IF startswith(rq.path, <<"h", "t", "t", "p", "s", ":", "/", "/">>) THEN 443 ELSE 80
                     scheme == IF port = 443 THEN <<"h", "t", "t", "p", "s">> ELSE <<"h", "t", "t", "p">>
                     target_url == IF startswith(rq.path, <<"h", "t", "t", "p">>) THEN rq.path
                                   ELSE scheme \o <<":", "/", "/">> \o host \o rq.path
                     Session(url) ==
                         IF UrlPortRaises(url)
                         THEN [kind |-> "raise", tls |-> FALSE, host |-> <<>>, port |-> 0, path |-> <<>>]
                         ELSE [kind |-> "ok",
                               tls |-> url.scheme = <<"h", "t", "t", "p", "s">>,
                               host |-> url.hostname,
                               port |-> IF UrlPort(url) # 0 THEN UrlPort(url)
                                        ELSE IF url.scheme = <<"h", "t", "t", "p", "s">> THEN 443 ELSE 80,
                               path |-> IF url.path = <<>> THEN <<"/">> ELSE url.path]
                 IN Session(urlparse(target_url))

\* int(self.headers.get('Content-Length', 0)) raises on a value that is not
\* a number.
ContentLengthRaises(headers) ==
    HasHeader(headers, ContentLengthName) /\ ~IntParses(HeaderGet(headers, ContentLengthName))

\* How far do_method gets: the check or call that ends it, or "done".
ForwardStage(proxy_string, rq, up) ==
    LET Stage(kind) ==
            IF kind = "no_host" THEN "no_host"
            ELSE IF kind = "raise" THEN "bad_target"
            ELSE IF ContentLengthRaises(rq.headers) THEN "bad_length"
            ELSE IF up.connect # "ok" THEN "connect"
            ELSE IF up.fail # "none" THEN up.fail
            ELSE "done"
    IN IF ~ParseMatches(proxy_string) THEN "bad_credential" ELSE Stage(Target(rq).kind)

\* do_method without its try: an exception leaves the handler and no
\* response is written for it.
do_method_unguarded(proxy_string, rq, up) ==
    LET Heads(stage) ==
            CASE stage \in {"bad_credential", "no_host"} -> <<400>>
              [] stage \in {"bad_target", "bad_length", "connect", "send", "head"} -> <<>>
              [] stage \in {"body", "done"} -> <<up.status>>
    IN Heads(ForwardStage(proxy_string, rq, up))

\* do_method: the response heads it writes to the client, in order.  400
\* without a parsable credential or without a Host header; the upstream's
\* status line once getresponse has returned; send_error(500) from the except
\* clause for every exception, also one raised after that status line.
do_method_heads(proxy_string, rq, up) ==
    LET Heads(stage) ==
            CASE stage \in {"bad_credential", "no_host"} -> <<400>>
              [] stage \in {"bad_target", "bad_length", "connect", "send", "head"} -> <<500>>
              [] stage = "body" -> <<up.status, 500>>
              [] stage = "done" -> <<up.status>>
    IN Heads(ForwardStage(proxy_string, rq, up))

\* What do_method did for a request: the session it opened (tls, host, port),
\* the path and the headers it passed to connection.request, the headers of
\* the upstream response and those it wrote to the client, whether the
\* upstream connection was opened and whether connection.close() (line 373)
\* was called on it.
Forward(proxy_string, rq, up) ==
    LET Done(stage, t) ==
            LET built == stage \in {"bad_length", "connect", "send", "head", "body", "done"}
                asked == stage \in {"connect", "send", "head", "body", "done"}
                answered == stage \in {"body", "done"}
            IN [stage |-> stage,
                tls |-> built /\ t.tls,
                host |-> IF built THEN t.host ELSE <<>>,
                port |-> IF built THEN t.port ELSE 0,
                path |-> IF built THEN t.path ELSE <<>>,
                request |-> rq,
                sent |-> IF asked THEN RequestHeaders(rq.headers) ELSE <<>>,
                response |-> IF answered THEN up.headers ELSE <<>>,
                returned |-> IF answered THEN ResponseHeaders(up.headers) ELSE <<>>,
                opened |-> stage \in {"send", "head", "body", "done"},
                closed |-> stage = "done"]
    IN Done(ForwardStage(proxy_string, rq, up), Target(rq))

\* do_GET .. do_OPTIONS -> do_method(method), in the handler of `listener`.
do_method(listener, method, rq, up) ==
    LET Request(fwd) ==
            LET asked == fwd.stage \in {"connect", "send", "head", "body", "done"}
            IN [method |-> method, handler |-> "do_method",
                head |-> do_method_heads(listener.proxy_string, rq, up),
                connect |-> IF asked THEN up.connect ELSE "none",
                status |-> IF asked THEN up.status ELSE 0,
                target |-> <<>>, after |-> AfterFailure,
                fwd |-> fwd, lookup |-> NoLookup]
    IN /\ Dispatch(method) = "do_method"
       /\ lastOp' = [NoOp("request") EXCEPT
                        !.port = listener.port, !.arg = listener.proxy_string,
                        !.req = Request(Forward(listener.proxy_string, rq, up))]
       /\ UNCHANGED <<pc, PROXIES, file, lastSaved, calls, dns, tun>>

\* A method the handler has no do_* method for.
send_error_501(listener, method) ==
    /\ Dispatch(method) = "send_error_501"
    /\ lastOp' = [NoOp("request") EXCEPT
                     !.port = listener.port, !.arg = listener.proxy_string,
                     !.req = [method |-> method, handler |-> "none", head |-> <<501>>,
                              connect |-> "none", status |-> 0, target |-> <<>>,
                              after |-> AfterFailure, fwd |-> NoForward,
                              lookup |-> NoLookup]]
    /\ UNCHANGED <<pc, PROXIES, file, lastSaved, calls, dns, tun>>

\* self.path of the CONNECT requests explored.
ConnectPaths ==
    { <<"t", ":", "4", "4", "3">>, <<"t">>, <<"t", ":", "x">>, <<"a", ":", "b", ":", "1">> }

\* do_CONNECT's own DoH lookup: whether the request raises, the status, and
\* whether the decoded JSON has an 'Answer' key and what is under it.
ConnectDohOutcomes ==
    { [raises |-> TRUE, status |-> 0, hasAnswer |-> FALSE, answer |-> <<>>],
      [raises |-> FALSE, status |-> 503, hasAnswer |-> FALSE, answer |-> <<>>],
      [raises |-> FALSE, status |-> 200, hasAnswer |-> FALSE, answer |-> <<>>],
      [raises |-> FALSE, status |-> 200, hasAnswer |-> TRUE,
       answer |-> <<[type |-> 5, data |-> <<"c">>]>>],
      [raises |-> FALSE, status |-> 200, hasAnswer |-> TRUE,
       answer |-> <<[type |-> 5, data |-> <<"c">>], [type |-> 1, data |-> <<"7">>]>>] }

\* do_CONNECT's own direct UDP query to 1.1.1.1 (lines 437-446): it raises,
\* or answers with the records under `answer`.
ConnectDirectOutcomes ==
    { [raises |-> TRUE, answer |-> <<>>],
      [raises |-> FALSE, answer |-> <<>>],
      [raises |-> FALSE, answer |-> << <<[rdtype |-> "CNAME", address |-> <<"c">>]>> >>],
      [raises |-> FALSE,
       answer |-> << <<[rdtype |-> "CNAME", address |-> <<"c">>]>>,
                     <<[rdtype |-> "A", address |-> <<"9">>]>> >>] }

\* if ':' not in self.path: self.path += ':443'; host, port =
\* self.path.split(':'); port = int(port).  ok is FALSE when the unpacking
\* or int() raises.
ConnectTarget(path) ==
    LET p == IF Positions(path, ":") = {} THEN path \o <<":", "4", "4", "3">> ELSE path
        parts == Split(p, ":")
    IN IF Len(parts) = 2 /\ IntParses(parts[2])
       THEN [ok |-> TRUE, host |-> parts[1], port |-> int(parts[2])]
       ELSE [ok |-> FALSE, host |-> <<>>, port |-> 0]

\* The DoH lookup inside do_CONNECT: ip_address is the first type-1 answer;
\* the host when the request raises, the status is not 200 or there is no
\* 'Answer' key; and it is left unassigned when 'Answer' holds no type-1
\* record.
ConnectResolve(host, doh) ==
    IF doh.raises \/ doh.status # 200 \/ ~doh.hasAnswer
    THEN [assigned |-> TRUE, ip |-> host]
    ELSE IF DohARecords(doh) # {}
    THEN [assigned |-> TRUE, ip |-> DohFirstA(doh)]
    ELSE [assigned |-> FALSE, ip |-> <<>>]

\* A handler that writes the 200 head before client_sock.connect.
ConnectHeads200First(connect) ==
    IF connect = "ok" THEN <<200>> ELSE <<200, 502>>

\* The inner try of do_CONNECT: client_sock.connect, then
\* send_response(200, 'Connection Established'); any exception goes to the
\* except clause, which closes client_sock and calls send_error(502).
ConnectHeads(connect) ==
    IF connect = "ok" THEN <<200>> ELSE <<502>>

\* do_CONNECT up to the start of the tunnel thread: the response heads
\* written, whether the tunnel starts, how the upstream connect came out
\* ("none" when connect was never called) and the address it was given.
ConnectPlan(proxy_string, path, doh, up) ==
    LET t == ConnectTarget(path)
        r == ConnectResolve(t.host, doh)
    IN IF ~t.ok
       THEN [head |-> <<500>>, tunnel |-> FALSE, connect |-> "none", target |-> <<>>]
       ELSE IF ~ParseMatches(proxy_string)
       THEN [head |-> <<400>>, tunnel |-> FALSE, connect |-> "none", target |-> <<>>]
       ELSE IF ~r.assigned
       THEN [head |-> <<502>>, tunnel |-> FALSE, connect |-> "none", target |-> <<>>]
       ELSE [head |-> ConnectHeads(up.connect), tunnel |-> up.connect = "ok",
             connect |-> up.connect, target |-> <<r.ip, t.port>>]

\* do_CONNECT, in the handler of `listener`; on success the handler thread
\* runs _tunnel_sockets, which the passes below continue.  One CONNECT is
\* followed at a time.  The direct UDP query of lines 437-446 (udp) comes
\* after the DoH lookup: its response is not read and its exception is
\* caught, so nothing of the handler depends on it.
do_CONNECT(listener, path, udp, doh, up) ==
    LET plan == ConnectPlan(listener.proxy_string, path, doh, up)
        looked == ConnectTarget(path).ok /\ ParseMatches(listener.proxy_string)
    IN /\ tun.state = "none"
       /\ lastOp' = [NoOp("request") EXCEPT
                        !.port = listener.port, !.arg = listener.proxy_string,
                        !.req = [method |-> "CONNECT", handler |-> "do_CONNECT",
                                 head |-> plan.head, connect |-> plan.connect,
                                 status |-> 0, target |-> plan.target,
                                 after |-> AfterFailure, fwd |-> NoForward,
                                 lookup |-> IF looked
                                            THEN [host |-> ConnectTarget(path).host,
                                                  udp |-> udp, doh |-> doh]
                                            ELSE NoLookup]]
       /\ tun' = [NoTunnel EXCEPT !.state = IF plan.tunnel THEN "relay" ELSE "refused",
                                  !.head = plan.head]
       /\ UNCHANGED <<pc, PROXIES, file, lastSaved, calls, dns>>

\* The handlers whose CONNECT requests the tunnel is explored for: one with
\* a parsable credential string and one without.
TunnelListeners ==
    { [port |-> PORT_MIN, proxy_string |-> <<"u", ":", "p", "@", "h", ":", "1">>],
      [port |-> PORT_MAX, proxy_string |-> <<"u", ":", "p", "@", "h">>] }

\* What the tunnel's DoH lookup answers: one that leaves the target address
\* the host itself, and one that leaves it unassigned.
TunnelDohOutcomes ==
    {doh \in ConnectDohOutcomes : doh.raises \/ (doh.hasAnswer /\ DohARecords(doh) = {})}

\* What the tunnel's direct UDP query does.
TunnelUdpOutcomes == {udp \in ConnectDirectOutcomes : udp.raises}

\* One DoH answer for each way the lookup ends: the host itself, an A
\* record, nothing assigned.
ServeDohOutcomes ==
    {doh \in ConnectDohOutcomes : doh.raises \/ doh.hasAnswer}

\* The outcomes of calls the pass does not make are left at a fixed value:
\* recv on a socket select did not report, sendall after a recv without data.
CallsMade(sel, rcv, snd) ==
    \A s \in Socks :
        /\ (\A i \in 1..Len(sel.readable) : sel.readable[i] # s)
              => rcv[s] = [kind |-> "eof", data |-> <<>>]
        /\ rcv[s].kind # "data" => snd[s] = [ok |-> TRUE, wrote |-> 0]

\* One pass of the relay loop.
TunnelPass(sel, rcv, snd, cls) ==
    /\ tun.state = "relay"
    /\ CallsMade(sel, rcv, snd)
    /\ sel.kind = "timeout" => tun.idle < MaxIdle
    /\ \A s \in Socks :
          /\ Len(tun.recv[s]) + Len(rcv[s].data) <= MaxTunnelBytes
          /\ snd[s].wrote <= Len(rcv[s].data)
          /\ snd[s].ok \/ snd[s].wrote < Len(rcv[s].data) \/ rcv[s].kind # "data"
    /\ tun' = LoopPass(tun, sel, rcv, snd, cls)
    /\ UNCHANGED <<regVars, calls, dns>>

\* The handler thread has ended; the next CONNECT gets a tunnel of its own.
TunnelDone ==
    /\ tun.state \in {"closed", "refused"}
    /\ tun' = NoTunnel
    /\ lastOp' = NoOp("handled")
    /\ UNCHANGED <<pc, PROXIES, file, lastSaved, calls, dns>>

NextTunnel ==
    \/ \E listener \in TunnelListeners, path \in ConnectPaths,
          udp \in TunnelUdpOutcomes, doh \in TunnelDohOutcomes, up \in UpstreamOutcomes :
            do_CONNECT(listener, path, udp, doh, up)
    \/ \E sel \in SelectOutcomes, rcv \in [Socks -> RecvOutcomes],
          snd \in [Socks -> SendOutcomes], cls \in CloseOutcomes :
            TunnelPass(sel, rcv, snd, cls)
    \/ TunnelDone

SpecTunnel == Init /\ [][NextTunnel]_vars

----------------------------------------------------------------------------
\* The listeners serving requests while bindings are added.

\* The handler context of the i-th binding's listener: its port and the
\* credential string its handler class captured.
Listener(i) == [port |-> PROXIES[i].port, proxy_string |-> PROXIES[i].handler]

\* A connection is accepted by the i-th binding's listener: its
\* serve_forever loop is running.
Arrives(i) ==
    /\ pc = "menu"
    /\ i \in 1..Len(PROXIES)
    /\ PROXIES[i].server = "serving"

\* bind_proxy where no other process holds a port, the save completes and
\* the sample happens to give the lowest unregistered port.
ServeBind(s) ==
    /\ bind_proxy(s)
    /\ lastOp'.started
    /\ lastOp'.occ = {}
    /\ lastOp'.port = PORT_MIN + Len(PROXIES)
    /\ file'.kind = "json"

\* The tunnel of the latest CONNECT ends: select raises, both sockets close.
ServeTunnelEnds ==
    TunnelPass([kind |-> "raise", readable |-> <<>>],
               [s \in Socks |-> [kind |-> "eof", data |-> <<>>]],
               [s \in Socks |-> [ok |-> TRUE, wrote |-> 0]],
               [s \in Socks |-> FALSE])

\* The requests the listeners are served with here: one with a Host header
\* and one without.
ServeRequests ==
    { [path |-> <<"/", "x">>, headers |-> <<[name |-> HostName, value |-> <<"t">>]>>],
      [path |-> <<"/", "x">>, headers |-> <<>>] }

NextServe ==
    \/ \E occ \in OccChoices : Startup(occ)
    \/ \E s \in CredInputs : ServeBind(s)
    \/ \E i \in 1..MaxBindings, method \in RequestMethods, rq \in ServeRequests,
          up \in UpstreamOutcomes :
            Arrives(i) /\ do_method(Listener(i), method, rq, up)
    \/ \E i \in 1..MaxBindings, path \in ConnectPaths, udp \in TunnelUdpOutcomes,
          doh \in ServeDohOutcomes, up \in UpstreamOutcomes :
            Arrives(i) /\ do_CONNECT(Listener(i), path, udp, doh, up)
    \/ \E i \in 1..MaxBindings, method \in RequestMethods :
            Arrives(i) /\ send_error_501(Listener(i), method)
    \/ ServeTunnelEnds
    \/ TunnelDone

SpecServe == Init /\ [][NextServe]_vars

----------------------------------------------------------------------------
\* save_proxies step by step in the main thread, and SIGINT arriving inside
\* it.  The handler runs in the main thread between two bytecodes of the
\* interrupted save: cleanup() and its own save_proxies() run to the end
\* while the interrupted one still holds its file object, and sys.exit(0)
\* then unwinds the interrupted `with`, which closes that file object and
\* flushes what json.dump had written into its buffer, at the offset it had
\* reached.

\* The text json.dump writes for a JSON object, as the sequence of its chunks.
Dump(items) ==
    <<[tok |-> "{"]>> \o [i \in 1..Len(items) |-> [tok |-> "member", item |-> items[i]]]
        \o <<[tok |-> "}"]>>

\* json.load of a text: the object, or JSONDecodeError ("torn").
Parse(text) ==
    IF /\ Len(text) >= 2
       /\ text[1].tok = "{"
       /\ text[Len(text)].tok = "}"
       /\ \A i \in 2..(Len(text) - 1) : text[i].tok = "member"
    THEN [kind |-> "json", data |-> [i \in 1..(Len(text) - 2) |-> text[i + 1].item]]
    ELSE [kind |-> "torn", data |-> <<>>]

\* The text of the file; that of a truncated or partly written file is taken
\* as empty.
Text(f) == IF f.kind = "json" THEN Dump(f.data) ELSE <<>>

\* A file object opened at offset 0 flushes `buf` into a file holding `text`.
Overlay(text, buf) == buf \o SubSeq(text, Len(buf) + 1, Len(text))

\* open(PROXY_DATA_FILE, 'w') has truncated the file.
Truncated == [kind |-> "torn", data |-> <<>>]

\* bind_proxy as far as `with open(PROXY_DATA_FILE, 'w') as f` inside
\* save_proxies: the listener runs, the binding is registered, the file is
\* open and empty.
BindOpensFile(s) ==
    /\ pc = "menu"
    /\ calls[1].pc = "idle"
    /\ Len(PROXIES) < MaxBindings
    /\ BindFormatMatches(s)
    /\ LET port == find_available_port(PROXIES, PORT_MIN + Len(PROXIES), {})
       IN /\ port # NoPort
          /\ start_proxy_server(PROXIES, port, {})
          /\ PROXIES' = DictSet(PROXIES, port, Registered(port, s))
          /\ calls' = [calls EXCEPT ![1] =
                          [pc |-> "saving", arg |-> s, port |-> port, buf |-> <<>>]]
          /\ lastOp' = [NoOp("bind") EXCEPT !.arg = s, !.port = port, !.started = TRUE]
    /\ file' = Truncated
    /\ UNCHANGED <<pc, lastSaved, dns, tun>>

\* json.dump writes its next chunk.
SaveWrites ==
    /\ calls[1].pc = "saving"
    /\ Len(calls[1].buf) < Len(Dump(SaveData(PROXIES)))
    /\ calls' = [calls EXCEPT ![1].buf =
                    Append(@, Dump(SaveData(PROXIES))[Len(calls[1].buf) + 1])]
    /\ UNCHANGED <<regVars, dns, tun>>

\* json.dump has returned: the `with` closes the file, and bind_proxy returns.
SaveCloses ==
    /\ calls[1].pc = "saving"
    /\ Len(calls[1].buf) = Len(Dump(SaveData(PROXIES)))
    /\ file' = Parse(Overlay(Text(file), calls[1].buf))
    /\ lastSaved' = Bindings(PROXIES)
    /\ calls' = [calls EXCEPT ![1] = IdleCall]
    /\ lastOp' = [lastOp EXCEPT !.io = "ok"]
    /\ UNCHANGED <<pc, PROXIES, dns, tun>>

\* SIGINT while the save of bind_proxy has the file open: cleanup() with its
\* save_proxies(), then sys.exit(0), whose SystemExit closes the file object
\* of the interrupted save.
SigintInSave(io) ==
    /\ pc = "menu"
    /\ calls[1].pc = "saving"
    /\ file' = Parse(Overlay(Text(save_proxies(ShutdownAll(PROXIES), file, io)), calls[1].buf))
    /\ lastSaved' = IF io = "ok" THEN Bindings(PROXIES) ELSE lastSaved
    /\ PROXIES' = <<>>
    /\ pc' = "stopped"
    /\ calls' = [calls EXCEPT ![1] = IdleCall]
    /\ lastOp' = [NoOp("exit") EXCEPT
                     !.how = "sigint", !.io = io, !.saves = 1, !.nested = TRUE,
                     !.left = Listening(ShutdownAll(PROXIES)),
                     !.cut = tun.state = "relay"]
    /\ tun' = ProcessEnds(tun)
    /\ UNCHANGED dns

NextSave ==
    \/ \E occ \in OccChoices : Startup(occ)
    \/ \E s \in CredInputs : BindOpensFile(s)
    \/ SaveWrites
    \/ SaveCloses
    \/ \E io \in IoOutcomes : SigintInSave(io)
    \/ \E io \in IoOutcomes : calls[1].pc = "idle" /\ sigint(io)
    \/ calls[1].pc = "idle" /\ ProcessExit

SpecSave == Init /\ [][NextSave]_vars

----------------------------------------------------------------------------
\* The process shut down while its listeners serve and a tunnel relays.

\* The tunnel of the latest CONNECT waits out one select timeout.
ShutdownTunnelIdles ==
    TunnelPass([kind |-> "timeout", readable |-> <<>>],
               [s \in Socks |-> [kind |-> "eof", data |-> <<>>]],
               [s \in Socks |-> [ok |-> TRUE, wrote |-> 0]],
               [s \in Socks |-> FALSE])

NextShutdown ==
    \/ \E occ \in OccChoices : Startup(occ)
    \/ \E s \in CredInputs : ServeBind(s)
    \/ \E i \in 1..MaxBindings, udp \in TunnelUdpOutcomes, doh \in TunnelDohOutcomes,
          up \in UpstreamOutcomes :
            Arrives(i) /\ do_CONNECT(Listener(i), <<"t", ":", "4", "4", "3">>, udp, doh, up)
    \/ ShutdownTunnelIdles
    \/ ServeTunnelEnds
    \/ TunnelDone
    \/ \E io \in IoOutcomes : cleanup(io)
    \/ \E io \in IoOutcomes : sigint(io)
    \/ ProcessExit

SpecShutdown == Init /\ [][NextShutdown]_vars

----------------------------------------------------------------------------
\* do_method in detail, in the handlers of two fixed listeners.

\* The request targets explored: self.path and the Host header.  Relative
\* paths and absolute URIs (one with its scheme in upper case), a Host with
\* and without a port, no Host, an empty one, and ones whose port is not a
\* number.
RequestShapes ==
    { [path |-> <<"/", "x">>, headers |-> <<[name |-> <<"H", "o", "s", "t">>, value |-> <<"t">>]>>],
      [path |-> <<"/", "x">>, headers |-> <<[name |-> <<"H", "o", "s", "t">>, value |-> <<"t", ":", "4", "4", "3">>]>>],
      [path |-> <<"/", "x">>, headers |-> <<[name |-> <<"H", "o", "s", "t">>, value |-> <<"t", ":", "8", "4", "4", "3">>]>>],
      [path |-> <<"h", "t", "t", "p", ":", "/", "/", "t", "/", "x">>, headers |-> <<[name |-> <<"H", "o", "s", "t">>, value |-> <<"t">>]>>],
      [path |-> <<"h", "t", "t", "p", "s", ":", "/", "/", "t", "/", "x">>, headers |-> <<[name |-> <<"H", "o", "s", "t">>, value |-> <<"t">>]>>],
      [path |-> <<"h", "t", "t", "p", ":", "/", "/", "t", ":", "4", "4", "3", "/", "x">>, headers |-> <<[name |-> <<"H", "o", "s", "t">>, value |-> <<"t", ":", "4", "4", "3">>]>>],
      [path |-> <<"h", "t", "t", "p", "s", ":", "/", "/", "t", ":", "8", "4", "4", "3", "/", "x">>, headers |-> <<[name |-> <<"H", "o", "s", "t">>, value |-> <<"t", ":", "8", "4", "4", "3">>]>>],
      [path |-> <<"h", "t", "t", "p", ":", "/", "/", "t", ":", "8", "0", "8", "0">>, headers |-> <<[name |-> <<"H", "o", "s", "t">>, value |-> <<"t">>]>>],
      [path |-> <<"/", "x">>, headers |-> <<>>],
      [path |-> <<"/", "x">>, headers |-> <<[name |-> <<"H", "o", "s", "t">>, value |-> <<>>]>>],
      [path |-> <<"/", "x">>, headers |-> <<[name |-> <<"H", "o", "s", "t">>, value |-> <<"a", ":", "b", ":", "c">>]>>],
      [path |-> <<"/", "x">>, headers |-> <<[name |-> <<"H", "o", "s", "t">>, value |-> <<"t", ":", "x">>]>>],
      [path |-> <<"H", "T", "T", "P", "S", ":", "/", "/", "t", "/", "x">>, headers |-> <<[name |-> <<"H", "o", "s", "t">>, value |-> <<"t">>]>>],
      [path |-> <<"h", "t", "t", "p", ":", "/", "/", "t", ":", "x", "/">>, headers |-> <<[name |-> <<"H", "o", "s", "t">>, value |-> <<"t">>]>>] }

\* The other headers of a request: none; Connection and an end-to-end header;
\* the other four hop-by-hop names in several spellings, an end-to-end header
\* and one the handler sets itself; a Content-Length, numeric and not.
ExtraHeaders ==
    { <<>>,
      <<[name |-> <<"C", "o", "n", "n", "e", "c", "t", "i", "o", "n">>, value |-> <<"k">>],
         [name |-> <<"A", "c", "c", "e", "p", "t">>, value |-> <<"a">>]>>,
      <<[name |-> <<"K", "E", "E", "P", "-", "A", "L", "I", "V", "E">>, value |-> <<"k">>],
         [name |-> <<"P", "r", "o", "x", "y", "-", "C", "o", "n", "n", "e", "c", "t", "i", "o", "n">>, value |-> <<"k">>],
         [name |-> <<"u", "p", "g", "r", "a", "d", "e">>, value |-> <<"w">>],
         [name |-> <<"T", "r", "a", "n", "s", "f", "e", "r", "-", "E", "n", "c", "o", "d", "i", "n", "g">>, value |-> <<"c">>],
         [name |-> <<"X", "-", "A">>, value |-> <<"a">>],
         [name |-> <<"A", "c", "c", "e", "p", "t", "-", "C", "H">>, value |-> <<"m">>]>>,
      <<[name |-> <<"C", "o", "n", "t", "e", "n", "t", "-", "L", "e", "n", "g", "t", "h">>, value |-> <<"3">>]>>,
      <<[name |-> <<"C", "o", "n", "t", "e", "n", "t", "-", "L", "e", "n", "g", "t", "h">>, value |-> <<"x">>]>> }

\* The requests do_method is explored for.
ForwardRequests ==
    { [path |-> shape.path, headers |-> shape.headers \o extra] :
        shape \in RequestShapes, extra \in ExtraHeaders }

\* The headers of the upstream responses explored.
UpstreamHeaders ==
    { <<>>,
      <<[name |-> <<"C", "o", "n", "t", "e", "n", "t", "-", "T", "y", "p", "e">>, value |-> <<"t">>],
         [name |-> <<"C", "o", "n", "n", "e", "c", "t", "i", "o", "n">>, value |-> <<"c">>]>>,
      <<[name |-> <<"K", "e", "e", "p", "-", "A", "l", "i", "v", "e">>, value |-> <<"k">>],
         [name |-> <<"T", "R", "A", "N", "S", "F", "E", "R", "-", "E", "N", "C", "O", "D", "I", "N", "G">>, value |-> <<"c">>],
         [name |-> <<"U", "p", "g", "r", "a", "d", "e">>, value |-> <<"w">>],
         [name |-> <<"p", "r", "o", "x", "y", "-", "c", "o", "n", "n", "e", "c", "t", "i", "o", "n">>, value |-> <<"k">>],
         [name |-> <<"S", "e", "r", "v", "e", "r">>, value |-> <<"s">>]>> }

\* The upstream outcomes do_method is explored for: a failed connect, a
\* failure while sending or while reading the response head, and a response
\* whose body streams to the end or fails on the way.
ForwardOutcomes ==
    { [connect |-> c, status |-> 0, fail |-> "none", headers |-> <<>>] :
        c \in {"refused", "auth_rejected"} }
      \cup { [connect |-> "ok", status |-> 0, fail |-> f, headers |-> <<>>] :
               f \in {"send", "head"} }
      \cup { [connect |-> "ok", status |-> s, fail |-> f, headers |-> h] :
               s \in {200, 503}, f \in {"none", "body"}, h \in UpstreamHeaders }

\* The handler thread of the request has ended; one request is followed at a
\* time.
ForwardDone ==
    /\ lastOp.op = "request"
    /\ lastOp' = NoOp("handled")
    /\ UNCHANGED <<pc, PROXIES, file, lastSaved, calls, dns, tun>>

NextForward ==
    \/ \E listener \in TunnelListeners, method \in RequestMethods,
          rq \in ForwardRequests, up \in ForwardOutcomes :
            lastOp.op # "request" /\ do_method(listener, method, rq, up)
    \/ \E listener \in TunnelListeners, method \in RequestMethods :
            lastOp.op # "request" /\ send_error_501(listener, method)
    \/ ForwardDone

SpecForward == Init /\ [][NextForward]_vars

----------------------------------------------------------------------------
\* do_CONNECT's name resolution in detail, in the handlers of two fixed
\* listeners.

\* self.path of the CONNECT requests whose lookup is explored: two hosts,
\* with and without a port, and the paths that never reach the lookup.
LookupPaths ==
    ConnectPaths \cup { <<"s">>, <<"s", ":", "8", "0">>, <<"t", ":", "8", "0">> }

NextConnect ==
    \/ \E listener \in TunnelListeners, path \in LookupPaths,
          udp \in ConnectDirectOutcomes, doh \in ConnectDohOutcomes,
          up \in UpstreamOutcomes :
            do_CONNECT(listener, path, udp, doh, up)
    \/ ServeTunnelEnds
    \/ TunnelDone

SpecConnect == Init /\ [][NextConnect]_vars

----------------------------------------------------------------------------
\* Vocabulary of the properties.

\* A credential string of the shape user:pass@host:port: it parses, its four
\* fields are non-empty and its host holds no whitespace.
FieldsNonEmpty(s) ==
    /\ ParseMatches(s)
    /\ LET f == parse_proxy(s)
           t == LazySplit(ParseSplits(s))
       IN /\ f.username # <<>>
          /\ f.password # <<>>
          /\ f.server # <<>>
          /\ SubSeq(s, t[3] + 1, t[4]) # <<>>

WellFormed(s) ==
    /\ FieldsNonEmpty(s)
    /\ LET t == LazySplit(ParseSplits(s)) IN AllNonSpace(s, t[2] + 1, t[3] - 1)

\* Some port of the range is neither registered nor held by another process.
SomePortFree(d, occ) == \E p \in PORT_MIN..PORT_MAX : p \notin Keys(d) /\ p \notin occ

\* The step is a bind_proxy call with a well-formed / malformed argument.
BindStepWellFormed == pc = "menu" /\ lastOp'.op = "bind" /\ WellFormed(lastOp'.arg)

BindStepMalformed == pc = "menu" /\ lastOp'.op = "bind" /\ ~WellFormed(lastOp'.arg)

NewEntry(op) ==
    [port |-> op.port, proxy |-> op.arg, server |-> "serving", handler |-> op.arg]

----------------------------------------------------------------------------
\* C1 as stated: with a well-formed credential string and some port of
\* 6700..6900 neither registered nor occupied, bind_proxy registers a new
\* binding on a port of the range that was not registered before.
C1_BindSucceedsWhenAPortIsFree ==
    [][(BindStepWellFormed /\ SomePortFree(PROXIES, lastOp'.occ))
        => /\ lastOp'.port \in PORT_MIN..PORT_MAX
           /\ lastOp'.port \notin Keys(PROXIES)
           /\ PROXIES' = Append(PROXIES, NewEntry(lastOp'))]_vars

\* C1 amended: bind_proxy with a well-formed credential string probes at most
\* 10 sampled unregistered candidates in order; None is returned only when
\* every sampled candidate is occupied; otherwise the port chosen is the first
\* probed candidate that binds, it lies in 6700..6900 and was not a key of the
\* registry; the binding is registered exactly when the listener then starts,
\* and nothing changes otherwise.
C1_BindTakesFirstProbedFreePort ==
    [][BindStepWellFormed
        => LET op == lastOp'
               n == Len(op.probed)
           IN /\ n >= 1 /\ n <= PROBE_LIMIT
              /\ \A i \in 1..n : op.probed[i] \notin Keys(PROXIES)
              /\ \A i \in 1..(n - 1) : op.probed[i] \in op.occ
              /\ IF op.probed[n] \in op.occ
                 THEN op.port = NoPort /\ n = PROBE_LIMIT
                 ELSE op.port = op.probed[n] /\ op.port \in PORT_MIN..PORT_MAX
              /\ op.started => PROXIES' = Append(PROXIES, NewEntry(op))
              /\ ~op.started => PROXIES' = PROXIES /\ file' = file]_vars

\* C1 witness: a well-formed string was bound on the second candidate probed,
\* the first being occupied.
C1_Witness ==
    /\ lastOp.op = "bind" /\ WellFormed(lastOp.arg) /\ lastOp.started
    /\ Len(lastOp.probed) = 2
    /\ lastOp.probed[1] \in lastOp.occ
    /\ lastOp.port \in Keys(PROXIES)

\* C2 as stated: bind_proxy with a malformed credential string probes no port
\* and leaves the registry (and so the running listeners) and the persisted
\* file as they were.
C2_MalformedBindHasNoEffect ==
    [][BindStepMalformed
        => lastOp'.probed = <<>> /\ PROXIES' = PROXIES /\ file' = file]_vars

\* No saved port is held by another process while restore_proxies runs, so
\* every listener start succeeds.
EveryStartSucceeds == \A b \in lastSaved : b[1] \notin lastOp.occ

\* C3: after a save that wrote the file, a restore in which every listener
\* starts rebuilds exactly the saved (port, credential) pairs.
C3_SaveRestoreRoundTrip ==
    (lastOp.op = "restore" /\ file.kind = "json" /\ EveryStartSucceeds)
        => /\ Bindings(PROXIES) = lastSaved
           /\ Len(PROXIES) = Cardinality(lastSaved)

\* C3 witness: two saved bindings were restored, every listener starting.
C3_Witness ==
    /\ lastOp.op = "restore" /\ file.kind = "json" /\ EveryStartSucceeds
    /\ Cardinality(lastSaved) = 2
    /\ Len(PROXIES) = 2

\* C4 as stated: two bind_proxy calls in flight at the same time are never
\* handed the same port by find_available_port.
C4_ConcurrentCallsGetDistinctPorts ==
    \A t, u \in Callers :
        (t # u /\ WellFormed(calls[t].arg) /\ WellFormed(calls[u].arg)
         /\ calls[t].pc \in {"probed", "started"} /\ calls[u].pc \in {"probed", "started"})
            => calls[t].port # calls[u].port

C6_AcceptedFieldsNonEmpty ==
    (lastOp.op = "bind" /\ lastOp.started) => FieldsNonEmpty(lastOp.arg)

\* Whether a step of the chain, given what the network answered, yields no
\* address.
StepFailed(step) ==
    CASE step = "direct"   -> dns.direct.raises \/ ~DirectHasA(dns.direct)
      [] step = "doh"      -> dns.doh.raises \/ ~DohHasA(dns.doh)
      [] step = "resolver" -> dns.std.raises \/ dns.std.answers = <<>>
      [] step = "system"   -> dns.sys.raises
      [] OTHER             -> FALSE

\* C7: a resolution never raises, and when the direct, DoH and system steps
\* all fail its value is the hostname itself.
C7_ResolverNeverRaises ==
    dns.done
        => /\ ~dns.out.raised
           /\ (\A step \in {"direct", "doh", "resolver", "system"} : StepFailed(step))
                 => dns.out.value = dns.host

\* C7 witness: every step raised and the hostname came back.
C7_Witness ==
    /\ dns.done
    /\ dns.direct.raises /\ dns.doh.raises /\ dns.sys.raises
    /\ dns.out.value = dns.host
    /\ ~dns.out.raised

\* The place of a step in the chain; the dnspython resolver and
\* gethostbyname are the two halves of the system-resolver step.
StepOrder(step) ==
    CASE step = "direct" -> 1 [] step = "doh" -> 2 [] step = "resolver" -> 3
      [] step = "system" -> 4 [] step = "literal" -> 5

\* C8: the steps are attempted in the order direct, DoH, system resolver,
\* literal, each for the same hostname and only after every earlier attempted
\* step failed; when the direct step fails, DoH is attempted next.
C8_ResolverStepOrder ==
    dns.done
        => LET tr == dns.out.trace
           IN /\ tr[1].step = "direct"
              /\ \A i, j \in 1..Len(tr) : i < j => StepOrder(tr[i].step) < StepOrder(tr[j].step)
              /\ \A i \in 1..Len(tr) : tr[i].name = dns.host
              /\ \A i \in 1..(Len(tr) - 1) : StepFailed(tr[i].step)
              /\ \A i \in 1..Len(tr) : \A s \in {"direct", "doh"} :
                    StepOrder(s) < StepOrder(tr[i].step) => StepFailed(s)
              /\ StepFailed("direct") => (Len(tr) >= 2 /\ tr[2].step = "doh")
              /\ ~StepFailed(tr[Len(tr)].step)

\* C8 witness: the direct query raised, DoH was attempted next and answered.
C8_Witness ==
    /\ dns.done
    /\ dns.direct.raises
    /\ Len(dns.out.trace) = 2
    /\ dns.out.trace[2] = [step |-> "doh", name |-> dns.host]
    /\ dns.out.value = "198.51.100.1"

IsPrefix(a, b) == Len(a) <= Len(b) /\ a = SubSeq(b, 1, Len(a))

\* C9: what has been written to the upstream socket is a prefix of what was
\* received from the client, and the reverse; while the relay runs, between
\* two passes, every received byte has been written once to the other socket.
C9_TunnelRelaysInOrder ==
    /\ IsPrefix(tun.sent["target"], tun.recv["browser"])
    /\ IsPrefix(tun.sent["browser"], tun.recv["target"])
    /\ tun.state = "relay"
          => /\ tun.sent["target"] = tun.recv["browser"]
             /\ tun.sent["browser"] = tun.recv["target"]

\* C9 witness: the relay runs and has moved several chunks in both directions.
C9_Witness ==
    /\ tun.state = "relay"
    /\ tun.sent["target"] = <<"a", "b", "c">>
    /\ tun.sent["browser"] = <<"b", "c", "a">>

\* C10 as stated: once select has timed out with neither socket readable, the
\* relay loop has ended and the tunnel is torn down.
C10_IdleTimeoutEndsTunnel ==
    tun.idle > 0 => (tun.state = "closed" /\ tun.closed = Socks)

\* A call of the latest pass that ends the relay: a recv that returned no
\* bytes, or a select, recv or sendall that raised.
EndsRelay(ev) == ev.out \in {"eof", "raise"}

\* C11: when a recv returns no bytes or a select, recv or sendall raises, that
\* call is the last one the relay loop makes and the tunnel is over; whenever
\* the tunnel is over, close() has been called on the client-facing and on
\* the upstream-facing socket, whether or not either close() raised.
C11_TunnelExitClosesBothSockets ==
    /\ \A i \in 1..Len(tun.pass) :
          EndsRelay(tun.pass[i]) => (i = Len(tun.pass) /\ tun.state = "closed")
    /\ tun.state = "closed" => tun.closed = Socks

\* C11 witness: the upstream recv returned no bytes after the client's bytes
\* had been relayed in the same pass, closing the client socket raised, and
\* close() was still called on both sockets.
C11_Witness ==
    /\ tun.state = "closed"
    /\ Len(tun.pass) = 4
    /\ tun.pass[4] = [call |-> "recv", sock |-> "target", out |-> "eof"]
    /\ "browser" \in tun.closeRaised
    /\ tun.closed = Socks

\* The operation on record is a CONNECT request that reached do_CONNECT.
ConnectOnRecord == lastOp.op = "request" /\ lastOp.req.handler = "do_CONNECT"

BytesRelayed == \E s \in Socks : tun.recv[s] # <<>> \/ tun.sent[s] # <<>>

\* C12: a CONNECT whose response heads hold a 200 had its upstream connect
\* succeed, and holds nothing else; a relay that runs or has moved a byte
\* follows a 200 head; a CONNECT whose upstream connect or handshake failed
\* wrote one head, an error status, no 200, and its relay never started.
C12_Connect200OnlyAfterUpstreamConnect ==
    /\ ConnectOnRecord
          => /\ (\E i \in 1..Len(lastOp.req.head) : lastOp.req.head[i] = 200)
                   => (lastOp.req.connect = "ok" /\ lastOp.req.head = <<200>>)
             /\ lastOp.req.connect \in {"refused", "auth_rejected"}
                   => /\ Len(lastOp.req.head) = 1
                      /\ lastOp.req.head[1] >= 400
                      /\ tun.state \in {"refused", "none"}
    /\ (tun.state \in {"relay", "closed"} \/ BytesRelayed)
          => (tun.head = <<200>> /\ ConnectOnRecord /\ lastOp.req.connect = "ok")

\* C12 witness: the upstream connect succeeded, 200 was written and the relay
\* has since moved bytes in both directions.
C12_Witness ==
    /\ ConnectOnRecord
    /\ lastOp.req.connect = "ok"
    /\ tun.head = <<200>>
    /\ tun.state = "relay"
    /\ tun.sent["target"] # <<>>
    /\ tun.sent["browser"] # <<>>

\* C13 as stated: a request whose method is not CONNECT is handled by
\* do_method and a CONNECT request by do_CONNECT, and the credential string
\* the handler used is the one registered under the port it arrived on.
C13_DispatchWithTheListenersCredential ==
    lastOp.op = "request"
        => /\ lastOp.req.method # "CONNECT" => lastOp.req.handler = "do_method"
           /\ lastOp.req.method = "CONNECT" => lastOp.req.handler = "do_CONNECT"
           /\ \E i \in 1..Len(PROXIES) :
                 PROXIES[i].port = lastOp.port /\ PROXIES[i].proxy = lastOp.arg

\* The request on record got through to its target.
Served(op) ==
    /\ op.req.connect = "ok"
    /\ op.req.head = IF op.req.handler = "do_CONNECT" THEN <<200>> ELSE <<op.req.status>>

\* C14: a request whose upstream connect was refused, or whose SOCKS5
\* handshake was rejected, is answered with exactly one head, a 5xx; handling
\* a request changes neither the registry, nor any listener's state, nor the
\* persisted file; and a request that follows a 5xx answer and whose
\* upstream connect succeeds is served.
C14_UpstreamFailureIsIsolated ==
    [][lastOp'.op = "request"
        => /\ lastOp'.req.connect \in {"refused", "auth_rejected"}
                 => /\ Len(lastOp'.req.head) = 1
                    /\ lastOp'.req.head[1] \in 500..599
           /\ PROXIES' = PROXIES /\ file' = file /\ pc' = pc
           /\ (lastOp'.req.after # NoPort /\ lastOp'.req.connect = "ok")
                 => Served(lastOp')]_vars

\* C14 witness: with two bindings registered, a request on a port is served
\* right after a request on the same port was answered with a 5xx.
C14_Witness ==
    /\ lastOp.op = "request"
    /\ Len(PROXIES) = 2
    /\ lastOp.req.after = lastOp.port
    /\ Served(lastOp)
    /\ \A i \in 1..Len(PROXIES) : PROXIES[i].server = "serving"

\* C15 as stated: when the process has ended by SIGINT or by the menu's Exit /
\* Esc, no listener was left serving and save_proxies ran exactly once in its
\* shutdown.
C15_ShutdownPersistsExactlyOnce ==
    (lastOp.op = "exit" /\ lastOp.how \in {"sigint", "menu"})
        => (lastOp.left = {} /\ lastOp.saves = 1)

\* The members of the persisted JSON object.
FileEntries == {<<file.data[i].key, file.data[i].value>> : i \in 1..Len(file.data)}

\* C17: when the save of the bind_proxy or cleanup on record has completed,
\* the file is a JSON object with one member per binding of the registry, its
\* key the port as a decimal string and its value an object with the single
\* member 'proxy', the credential string: no binding is missing, no other
\* member remains and no runtime field is written.
C17_SavedFileMirrorsRegistry ==
    (lastOp.op \in {"bind", "cleanup"} /\ lastOp.io = "ok")
        => /\ file.kind = "json"
           /\ Len(file.data) = Len(PROXIES)
           /\ FileEntries
                = {<<str(PROXIES[i].port), [proxy |-> PROXIES[i].proxy]>> : i \in 1..Len(PROXIES)}

\* C17 witness: cleanup has saved a registry of two bindings, one of them
\* restored from an earlier save.
C17_Witness ==
    /\ lastOp.op = "cleanup" /\ lastOp.io = "ok"
    /\ Len(PROXIES) = 2
    /\ Len(file.data) = 2
    /\ file.data[1].key = <<"6", "7", "0", "0">>
    /\ file.data[2].key = <<"6", "9", "0", "0">>

\* C18 as stated: a port whose listener has been stopped counts as free
\* again: find_available_port has it among its candidates and its probe
\* binds when no other process holds the port.
C18_StoppedPortIsFreeAgain ==
    \A i \in 1..Len(PROXIES) :
        PROXIES[i].server = "shutdown"
            => /\ PROXIES[i].port \in AvailablePorts(PROXIES)
               /\ ProbeBinds(PROXIES, PROXIES[i].port, {})

\* The step is a bind_proxy call that passed the format check and then got
\* no port, or lost the chosen port to another process before its listener
\* could bind it.
BindStepFails ==
    /\ pc = "menu" /\ lastOp'.op = "bind" /\ BindFormatMatches(lastOp'.arg)
    /\ lastOp'.port = NoPort \/ lastOp'.raced

\* C19: a bind_proxy call that fails for want of a port, or because the
\* listener cannot start on the chosen port, leaves the registry, the
\* listeners that serve and the persisted file exactly as they were.
C19_FailedBindChangesNothing ==
    [][BindStepFails
        => /\ PROXIES' = PROXIES
           /\ Listening(PROXIES') = Listening(PROXIES)
           /\ file' = file
           /\ ~lastOp'.started]_vars

\* C19 witness: with one binding registered, a second bind_proxy chose a port
\* that another process took before the listener could start.
C19_Witness ==
    /\ lastOp.op = "bind" /\ lastOp.raced /\ ~lastOp.started
    /\ lastOp.port # NoPort
    /\ Len(PROXIES) = 1
    /\ lastOp.port \notin Keys(PROXIES)

\* A member restore_proxies can use: its key is a number and its value has
\* a 'proxy'.
Usable(item) == IntParses(item.key) /\ HasProxy(item)

\* C16 as stated: restore_proxies over a JSON object ends with startup going
\* on; every usable member whose port no other process holds is restored on
\* that exact port with its credential string, whatever the other members
\* are; and nothing else is restored.
C16_RestoreIsPerEntry ==
    (lastOp.op = "restore" /\ file.kind = "json")
        => /\ ~lastOp.crashed /\ pc = "menu"
           /\ \A i \in 1..Len(file.data) :
                 (Usable(file.data[i]) /\ int(file.data[i].key) \notin lastOp.occ)
                    => <<int(file.data[i].key), file.data[i].value.proxy>> \in Bindings(PROXIES)
           /\ \A b \in Bindings(PROXIES) :
                 \E i \in 1..Len(file.data) :
                    /\ Usable(file.data[i])
                    /\ b = <<int(file.data[i].key), file.data[i].value.proxy>>

\* C20 as stated: a bind_proxy whose save failed has its binding registered
\* with the listener serving and the process still in the menu; and a startup
\* that finds the file missing, unreadable or not valid JSON goes on to the
\* menu with an empty registry.
C20_PersistenceFailuresAreNotFatal ==
    /\ (lastOp.op = "bind" /\ lastOp.started /\ lastOp.io # "ok")
          => /\ pc = "menu"
             /\ \E i \in 1..Len(PROXIES) : PROXIES[i] = NewEntry(lastOp)
    /\ (lastOp.op = "restore" /\ file.kind \in {"missing", "unreadable", "undecodable", "torn"})
          => /\ ~lastOp.crashed
             /\ pc = "menu"
             /\ PROXIES = <<>>

\* The hop-by-hop headers named by the specification, in lower case.
HopByHopHeaders ==
    { <<"c", "o", "n", "n", "e", "c", "t", "i", "o", "n">>,
      <<"k", "e", "e", "p", "-", "a", "l", "i", "v", "e">>,
      <<"p", "r", "o", "x", "y", "-", "c", "o", "n", "n", "e", "c", "t", "i", "o", "n">>,
      <<"u", "p", "g", "r", "a", "d", "e">>,
      <<"t", "r", "a", "n", "s", "f", "e", "r", "-", "e", "n", "c", "o", "d", "i", "n", "g">> }

\* The last operation was a request that do_method handled.
Forwarded == lastOp.op = "request" /\ lastOp.req.handler = "do_method"

\* Header list `out` holds none of the hop-by-hop headers.
Stripped(out) == \A i \in 1..Len(out) : lower(out[i].name) \notin HopByHopHeaders

\* Every header of `in` that is not hop-by-hop is in `out`, name and value.
PassedThrough(in, out) ==
    \A i \in 1..Len(in) :
        lower(in[i].name) \notin HopByHopHeaders => \E j \in 1..Len(out) : out[j] = in[i]

\* do_method called connection.request / wrote the upstream's head.
SentUpstream == Forwarded /\ lastOp.req.fwd.stage \in {"connect", "send", "head", "body", "done"}

Answered == Forwarded /\ lastOp.req.fwd.stage \in {"body", "done"}

\* C21: the request do_method sends upstream and the response it returns to
\* the client hold none of Connection, Keep-Alive, Proxy-Connection, Upgrade,
\* Transfer-Encoding (in any spelling of case), and every other header of the
\* client's request and of the upstream's response is passed through.
C21_HopByHopHeadersStrippedBothWays ==
    /\ SentUpstream =>
          /\ Stripped(lastOp.req.fwd.sent)
          /\ PassedThrough(lastOp.req.fwd.request.headers, lastOp.req.fwd.sent)
    /\ Answered =>
          /\ Stripped(lastOp.req.fwd.returned)
          /\ PassedThrough(lastOp.req.fwd.response, lastOp.req.fwd.returned)

\* The target a request names, read off the request itself: an absolute URI
\* (its scheme in any spelling of case) gives the scheme and, with the
\* scheme's default, the port; a relative path takes the port of the Host
\* header, 80 without one, and names no scheme.
AbsoluteURI(rq) ==
    \/ startswith(lower(rq.path), <<"h", "t", "t", "p", ":", "/", "/">>)
    \/ startswith(lower(rq.path), <<"h", "t", "t", "p", "s", ":", "/", "/">>)

NamedScheme(rq) ==
    IF ~AbsoluteURI(rq) THEN "none"
    ELSE IF startswith(lower(rq.path), <<"h", "t", "t", "p", "s", ":", "/", "/">>) THEN "https" ELSE "http"

NamedAuthority(rq) ==
    IF AbsoluteURI(rq)
    THEN Split(SubSeq(rq.path, IF NamedScheme(rq) = "https" THEN 9 ELSE 8, Len(rq.path)), "/")[1]
    ELSE HeaderGet(rq.headers, HostName)

NamedPort(rq) ==
    LET parts == Split(NamedAuthority(rq), ":")
    IN IF Len(parts) = 2 THEN int(parts[2])
       ELSE IF NamedScheme(rq) = "https" THEN 443 ELSE 80

\* do_method built the upstream session object for the request.
SessionBuilt ==
    Forwarded /\ lastOp.req.fwd.stage \in {"bad_length", "connect", "send", "head", "body", "done"}

\* C22: for every request shape the upstream session is TLS-wrapped exactly
\* when the target port is 443 or the target scheme is https, and the port
\* connected to is the port the request target names.
C22_TlsIffHttpsTargetOnTheNamedPort ==
    SessionBuilt =>
        /\ lastOp.req.fwd.tls <=>
              (NamedPort(lastOp.req.fwd.request) = 443
                 \/ NamedScheme(lastOp.req.fwd.request) = "https")
        /\ lastOp.req.fwd.port = NamedPort(lastOp.req.fwd.request)

\* C23: the upstream connection opened for a forwarded request has been
\* closed by the time the request finishes, whether the request succeeded or
\* failed while sending, while reading the response head or while streaming
\* the body.
C23_UpstreamConnectionClosedOnEveryPath ==
    (Forwarded /\ lastOp.req.fwd.opened) => lastOp.req.fwd.closed

\* C29: do_method writes at most one response head to the client for a
\* request, also when the body fails after the upstream's head was sent.
C29_AtMostOneResponseHead ==
    Forwarded => Len(lastOp.req.head) <= 1

\* C24: once SIGINT has been handled the process has ended: no listener is
\* left accepting connections, a tunnel that was relaying has both its
\* sockets closed, and the end did not wait for the tunnel to finish.
C24_SigintStopsListenersAndTunnels ==
    (lastOp.op = "exit" /\ lastOp.how = "sigint") =>
        /\ pc = "stopped"
        /\ lastOp.left = {}
        /\ tun.state # "relay"
        /\ lastOp.cut => tun.closed = Socks

\* SIGINT arrived while listeners were serving and a tunnel was relaying.
C24_Witness ==
    /\ lastOp.op = "exit" /\ lastOp.how = "sigint"
    /\ lastOp.cut
    /\ tun.state = "closed" /\ tun.closed = Socks
    /\ file.kind = "json" /\ Len(file.data) > 0

\* C25: no execution of save_proxies starts while another one has the file
\* open, and a shutdown whose own save succeeded leaves the file a complete
\* JSON object, never a torn one or a mix of two snapshots.
C25_SavesOfTheFileNeverOverlap ==
    /\ ~lastOp.nested
    /\ (lastOp.op = "exit" /\ lastOp.how = "sigint" /\ lastOp.io = "ok") =>
          file.kind = "json"

\* The items of the file restore_proxies reaches that name `port` and hold
\* a credential string.
ItemsOfPort(port) ==
    {i \in 1..Len(load_proxies(file)) :
        /\ \A j \in 1..i : IntParses(load_proxies(file)[j].key)
        /\ int(load_proxies(file)[i].key) = port
        /\ HasProxy(load_proxies(file)[i])}

\* What restore_proxies has just registered for the ports of the file is the
\* credential string of the first item naming each port.
RestoredFromFirstItem ==
    (lastOp.op = "restore" /\ ~lastOp.crashed) =>
        \A e \in 1..Len(PROXIES) :
            /\ ItemsOfPort(PROXIES[e].port) # {}
            /\ PROXIES[e].proxy =
                  load_proxies(file)[CHOOSE i \in ItemsOfPort(PROXIES[e].port) :
                                        \A j \in ItemsOfPort(PROXIES[e].port) : i <= j].value.proxy

\* Every listener uses the credential string registered for its port.
ListenersUseRegisteredCredential ==
    \A e \in 1..Len(PROXIES) : PROXIES[e].handler = PROXIES[e].proxy

\* A step leaves the credential string and the listener's credential of every
\* port that stays registered as they were.
EntriesKept ==
    \A i \in 1..Len(PROXIES), j \in 1..Len(PROXIES') :
        PROXIES[i].port = PROXIES'[j].port =>
            /\ PROXIES'[j].proxy = PROXIES[i].proxy
            /\ PROXIES'[j].handler = PROXIES[i].handler

ConnectResolverOutcomes ==
    { [raises |-> TRUE, answers |-> <<>>],
      [raises |-> FALSE, answers |-> <<>>],
      [raises |-> FALSE, answers |-> << <<"5">> >>] }

ConnectSystemOutcomes ==
    { [raises |-> TRUE, ip |-> <<>>],
      [raises |-> FALSE, ip |-> <<"3">>] }

\* The latest request is a CONNECT whose handler reached its name lookup.
LookedUp == lastOp.op = "request" /\ lastOp.req.lookup # NoLookup

\* The latest CONNECT called client_sock.connect.
ConnectCalled == lastOp.req.connect # "none"

\* C27: whenever do_CONNECT calls the SOCKS5 connect, the address it passes
\* is the value cloudflare_dns_query returns for the same host under the same
\* outcomes of the direct UDP query and the DoH lookup: the UDP answer's A
\* record first, then the DoH answer, then the resolvers, then the hostname.
C27_ConnectResolvesLikeCloudflareDnsQuery ==
    (LookedUp /\ ConnectCalled) =>
        \A std \in ConnectResolverOutcomes, sys \in ConnectSystemOutcomes :
            lastOp.req.target[1] =
                cloudflare_dns_query(lastOp.req.lookup.host, lastOp.req.lookup.udp,
                                     lastOp.req.lookup.doh, std, sys).value

\* C30: on every path through do_CONNECT's DoH lookup the address is
\* assigned, so the SOCKS5 connect is called, with the first A record's data
\* when the answer holds one and with the target hostname otherwise.
C30_ConnectAddressAssignedOnEveryDohPath ==
    LookedUp =>
        /\ ConnectCalled
        /\ lastOp.req.target[1] =
              IF DohHasA(lastOp.req.lookup.doh)
              THEN DohFirstA(lastOp.req.lookup.doh)
              ELSE lastOp.req.lookup.host

\* C28: every registered credential string is one parse_proxy accepts,
\* whether bind_proxy registered it or restore_proxies took it from the file,
\* so no listener answers every request with 400.
C28_RegisteredCredentialsParse ==
    \A e \in 1..Len(PROXIES) :
        /\ ParseMatches(PROXIES[e].proxy)
        /\ ParseMatches(PROXIES[e].handler)

====
